---- MODULE Spec2Model ----
(***************************************************************************)
(* Model of the video storyboard generator: the session-store actor        *)
(* (createSession / getSession / updateSegmentStatus), the useVideoSession *)
(* hook (startGeneration, the generateClips loop, retrySegment, reset) and *)
(* the clip provider it calls.  Every await of the hook is a suspension    *)
(* point: one action per resolution of an await, running the code up to    *)
(* the next await.                                                         *)
(***************************************************************************)
EXTENDS Integers, Sequences, FiniteSets, TLC

\* ------------------------------------------------------------------ bounds
MaxClips == 3        \* largest clipCount of a run when reset() is not called
MaxClipsReset == 2   \* largest clipCount of a run when reset() may be called
MaxRuns == 2         \* startGeneration calls that pass the preflight
MaxRetryCalls == 1   \* retrySegment calls
MaxResets == 1       \* reset() calls
MaxRejections == 1   \* actor calls that are rejected without the actor trapping
MaxSessions == 2     \* createSession calls accepted when the actor is called directly
MaxPrompts == 2      \* longest segmentPrompts of a direct createSession call
MaxClipsSelecting == 1  \* largest clipCount of a run while the provider selection changes
MaxHandlers == 2     \* onConfigChange calls besides the provider hook's
MaxShown == 3        \* longest segment list given to the progress hook
MaxClipsLive == 2    \* clipCount of a run whose termination is checked
MaxTasks == 3        \* calls of the hook pending at once (MaxRuns + MaxRetryCalls)
MaxAppClips == 4     \* largest clipCount set in the App
MaxAppDuration == 121  \* largest perClipDuration set in the App
MaxPathParts == 3    \* parts after the host in an endpoint typed into the form
MaxTick == 46        \* seconds the progress hook's ticker runs (its cycle is 45)

\* ------------------------------------------------------- program constants
MAX_CLIP_DURATION_SECONDS == 120

\* Inputs of startGeneration(prompt, clipCount, perClipDuration).
Prompts == {"", "sunset"}
ClipCounts(maxCount) == 0..maxCount
Durations == {0, 20, 121}

\* ------------------------------------------------------------ StatusModel
Queued == [kind |-> "queued"]
Generating == [kind |-> "generating"]
Completed == [kind |-> "completed"]
Failed(reason) == [kind |-> "failed", failed |-> reason]

\* ----------------------------------------------------------- SessionStore
VARIABLES sessions, nextSessionId, nextSegmentId

storeVars == <<sessions, nextSessionId, nextSegmentId>>

\* A createSession whose duration check has no lower bound.
CreateSessionTrapNoLowerBound(originalPrompt, segmentPrompts, perClipDuration) ==
  IF originalPrompt = "" THEN "Original prompt cannot be empty"
  ELSE IF segmentPrompts = <<>> THEN "At least one segment prompt is required"
  ELSE IF perClipDuration > MAX_CLIP_DURATION_SECONDS
       THEN "Clip duration must be between 1 and 120 seconds"
  ELSE ""

\* The three traps at the head of createSession; "" when the call is accepted.
CreateSessionTrap(originalPrompt, segmentPrompts, perClipDuration) ==
  IF originalPrompt = "" THEN "Original prompt cannot be empty"
  ELSE IF segmentPrompts = <<>> THEN "At least one segment prompt is required"
  ELSE IF perClipDuration = 0 \/ perClipDuration > MAX_CLIP_DURATION_SECONDS
       THEN "Clip duration must be between 1 and 120 seconds"
  ELSE ""

\* segmentPrompts.map(...): one queued segment per prompt, ids drawn from the
\* actor-wide counter nextSegmentId.
NewSegments(segmentPrompts, firstId) ==
  [k \in 1..Len(segmentPrompts) |->
     [prompt |-> segmentPrompts[k], status |-> Queued, id |-> firstId + k - 1]]

NewSession(originalPrompt, segmentPrompts, perClipDuration, sid, firstId) ==
  [originalPrompt |-> originalPrompt,
   segmentPrompts |-> segmentPrompts,
   perClipDuration |-> perClipDuration,
   segments |-> NewSegments(segmentPrompts, firstId),
   id |-> sid]

\* The sessions map after sessions.add(sessionId, session).
SessionsAdd(map, sid, session) ==
  [s \in DOMAIN map \cup {sid} |-> IF s = sid THEN session ELSE map[s]]

\* A variant of UpdatedSegments that rebuilds the matching segment without
\* copying its prompt.
UpdatedSegmentsDropsPrompt(segs, segmentId, newStatus) ==
  [k \in 1..Len(segs) |->
     IF segs[k].id = segmentId
     THEN [prompt |-> "", status |-> newStatus, id |-> segs[k].id]
     ELSE segs[k]]

\* session.segments.map(...) of updateSegmentStatus: the segment whose id field
\* equals segmentId takes the new status, every other segment is kept.
UpdatedSegments(segs, segmentId, newStatus) ==
  [k \in 1..Len(segs) |->
     IF segs[k].id = segmentId
     THEN [prompt |-> segs[k].prompt, status |-> newStatus, id |-> segs[k].id]
     ELSE segs[k]]

\* The sessions map after a successful updateSegmentStatus (session known).
UpdateSegmentStatus(map, sid, segmentId, newStatus) ==
  SessionsAdd(map, sid,
    [map[sid] EXCEPT !.segments = UpdatedSegments(@, segmentId, newStatus)])

toPublicSegment(segment) == [prompt |-> segment.prompt, status |-> segment.status]

\* VideoSession.toPublic: what getSession returns.
toPublic(session) ==
  [originalPrompt |-> session.originalPrompt,
   segmentPrompts |-> session.segmentPrompts,
   perClipDuration |-> session.perClipDuration,
   segments |-> [k \in 1..Len(session.segments) |-> toPublicSegment(session.segments[k])]]

\* ---------------------------------------------------------- clip provider
\* ------------------------------------------------- Grok configuration
\* A string is the sequence of its parts: a blank, a scheme with its "://", a
\* host, a path segment, a slash, a query.  "" is <<>>.
Blank == " "

RECURSIVE TrimStart(_)
TrimStart(str) ==
  IF str # <<>> /\ Head(str) = Blank THEN TrimStart(Tail(str)) ELSE str

RECURSIVE TrimEnd(_)
TrimEnd(str) ==
  IF str # <<>> /\ str[Len(str)] = Blank
  THEN TrimEnd(SubSeq(str, 1, Len(str) - 1))
  ELSE str

\* String.prototype.trim
Trim(str) == TrimEnd(TrimStart(str))

\* trimmed.startsWith('http://') || trimmed.startsWith('https://')
StartsWithHttp(str) == str # <<>> /\ Head(str) \in {"http://", "https://"}

Hosts == {"api.x.ai"}
PathParts == {"/v1", "/"}
Queries == {"?model=video"}

\* new URL(trimmed) does not throw, for a string that starts with http:// or
\* https://: a host follows the scheme, then path parts, then at most one
\* query at the end.
UrlParses(str) ==
  /\ Len(str) >= 2
  /\ str[2] \in Hosts
  /\ \A k \in 3..Len(str) :
       \/ str[k] \in PathParts
       \/ str[k] \in Queries /\ k = Len(str)

\* url.origin + url.pathname, a trailing slash removed, then url.search.
NormalizedUrl(str) ==
  LET search == IF str[Len(str)] \in Queries THEN <<str[Len(str)]>> ELSE <<>>
      path == SubSeq(str, 3, Len(str) - Len(search))
      pathname == IF path = <<>> THEN <<"/">> ELSE path
      joined == <<str[1], str[2]>> \o pathname
      sliced == IF joined[Len(joined)] = "/"
                THEN SubSeq(joined, 1, Len(joined) - 1)
                ELSE joined
  IN sliced \o search

EndpointResult(valid, normalized, error) ==
  [valid |-> valid, normalized |-> normalized, error |-> error]

\* A variant of validateAndNormalizeEndpoint without the scheme and format
\* checks.
validateNonBlankOnly(endpoint) ==
  LET trimmed == Trim(endpoint) IN
  IF trimmed = <<>> THEN EndpointResult(FALSE, <<>>, "Endpoint URL is required")
  ELSE EndpointResult(TRUE, trimmed, "")

validateAndNormalizeEndpoint(endpoint) ==
  LET trimmed == Trim(endpoint) IN
  IF trimmed = <<>> THEN EndpointResult(FALSE, <<>>, "Endpoint URL is required")
  ELSE IF ~StartsWithHttp(trimmed)
  THEN EndpointResult(FALSE, <<>>, "Endpoint must start with http:// or https://")
  ELSE IF ~UrlParses(trimmed)
  THEN EndpointResult(FALSE, <<>>, "Invalid endpoint URL format")
  ELSE EndpointResult(TRUE, NormalizedUrl(trimmed), "")

\* A configuration, or null.
NoConfig == [null |-> TRUE, endpoint |-> <<>>, apiKey |-> <<>>]
GrokConfig(endpoint, apiKey) == [null |-> FALSE, endpoint |-> endpoint, apiKey |-> apiKey]

\* loadRuntimeConfig over the two localStorage items (an item that is absent
\* reads as "": the code treats null and "" alike).
loadRuntimeConfig(endpointItem, apiKeyItem) ==
  IF /\ endpointItem # <<>> /\ apiKeyItem # <<>>
     /\ Trim(endpointItem) # <<>> /\ Trim(apiKeyItem) # <<>>
  THEN GrokConfig(Trim(endpointItem), Trim(apiKeyItem))
  ELSE NoConfig

isRuntimeConfigValid(config) ==
  IF config.null \/ Trim(config.endpoint) = <<>> \/ Trim(config.apiKey) = <<>>
  THEN FALSE
  ELSE validateAndNormalizeEndpoint(config.endpoint).valid

\* getGrokConfig: the environment variables when both are non-empty, else the
\* runtime configuration when it is valid, else null.
getGrokConfig(envEp, envKey, endpointItem, apiKeyItem) ==
  LET runtime == loadRuntimeConfig(endpointItem, apiKeyItem)
      validation == validateAndNormalizeEndpoint(envEp)
  IN
  IF envEp # <<>> /\ envKey # <<>>
  THEN GrokConfig(IF validation.valid THEN validation.normalized ELSE envEp, envKey)
  ELSE IF isRuntimeConfigValid(runtime) THEN runtime
  ELSE NoConfig

isGrokConfigured(envEp, envKey, endpointItem, apiKeyItem) ==
  ~getGrokConfig(envEp, envKey, endpointItem, apiKeyItem).null

\* currentProvider: the module variable of videoProvider.ts; grokConfigured:
\* what isGrokConfigured() returns; envConfigured: both VITE_GROK_* variables
\* are set in the build; runtimeConfig: localStorage holds a runtime endpoint
\* and key; explicitDemoOptIn and storedProvider: the localStorage items
\* 'explicit-demo-opt-in' and 'video-provider-selection'; providerHook: the
\* state of the useVideoProvider hook.
VARIABLES currentProvider, grokConfigured, envConfigured, runtimeConfig,
          explicitDemoOptIn, storedProvider, providerHook

\* ENV_GROK_API_ENDPOINT, ENV_GROK_API_KEY: the build's two environment
\* strings; grokApiEndpoint, grokApiKey: the localStorage items
\* 'grok-api-endpoint' and 'grok-api-key' ("" when absent); listeners: the
\* handlers onConfigChange has added to the window and not removed;
\* nextHandler: the handlers added so far, plus one; delivered: how often the
\* last dispatchEvent called each handler; saveArgs: the arguments of
\* saveRuntimeConfig when it is the last call made on the page's provider
\* settings.
VARIABLES ENV_GROK_API_ENDPOINT, ENV_GROK_API_KEY, grokApiEndpoint, grokApiKey,
          listeners, nextHandler, delivered, saveArgs

configVars == <<grokConfigured, envConfigured, runtimeConfig, ENV_GROK_API_ENDPOINT,
                ENV_GROK_API_KEY, grokApiEndpoint, grokApiKey, listeners,
                nextHandler, delivered, saveArgs>>

providerVars == <<currentProvider, explicitDemoOptIn, storedProvider, providerHook,
                  configVars>>

\* The endpoint and key a user saves in the settings form, as stored.
SavedEndpoint == <<"https://", "api.x.ai", "/v1">>
SavedApiKey == <<"xai-key">>

SaveArgs(endpoint, apiKey, written) ==
  [endpoint |-> endpoint, apiKey |-> apiKey, written |-> written]

NoSaveArgs == SaveArgs(<<>>, <<>>, 0)

\* No handler has been called.
NoneDelivered == [h \in 1..MaxHandlers |-> 0]

\* The configuration strings behind the three flags: a configured environment
\* carries a valid endpoint and a key, a runtime configuration is the saved
\* pair; no handler besides the hook's is subscribed.
ConfigOf(env, runtime) ==
  /\ ENV_GROK_API_ENDPOINT = IF env THEN SavedEndpoint ELSE <<>>
  /\ ENV_GROK_API_KEY = IF env THEN SavedApiKey ELSE <<>>
  /\ grokApiEndpoint = IF runtime THEN SavedEndpoint ELSE <<>>
  /\ grokApiKey = IF runtime THEN SavedApiKey ELSE <<>>
  /\ listeners = {}
  /\ nextHandler = 1
  /\ delivered = NoneDelivered
  /\ saveArgs = NoSaveArgs

\* localStorage.getItem(PROVIDER_STORAGE_KEY) === null
NoStoredProvider == "none"

\* The provider selection: currentProvider and the two localStorage items.
Selection(current, optIn, stored) ==
  [current |-> current, optIn |-> optIn, stored |-> stored]

\* cleanupStaleProviderSelection: a stored 'demo' without opt-in is removed
\* when Grok is configured.
cleanupStaleProviderSelection(sel, configured) ==
  IF sel.stored = "demo" /\ ~sel.optIn /\ configured
  THEN [sel EXCEPT !.stored = NoStoredProvider]
  ELSE sel

\* currentProvider = initializeProvider(), run when the module is loaded.
initializeProvider(sel, configured) ==
  LET cleaned == cleanupStaleProviderSelection(sel, configured) IN
  [cleaned EXCEPT !.current = IF configured /\ ~sel.optIn THEN "grok" ELSE "demo"]

\* A variant of reconcileProviderOnConfigChange without the automatic switch
\* to Grok.
reconcileWithoutSwitch(sel, configured) ==
  LET cleaned == cleanupStaleProviderSelection(sel, configured) IN
  IF ~configured /\ cleaned.current = "grok"
  THEN [cleaned EXCEPT !.current = "demo", !.optIn = FALSE]
  ELSE cleaned

\* A variant of reconcileProviderOnConfigChange whose switch to Grok stores
\* the provider that was current before the switch.
reconcileStoresPrevious(sel, configured) ==
  LET cleaned == cleanupStaleProviderSelection(sel, configured)
      switched == IF configured /\ ~sel.optIn /\ cleaned.current = "demo"
                  THEN [cleaned EXCEPT !.current = "grok", !.stored = "demo"]
                  ELSE cleaned
  IN
  IF ~configured /\ switched.current = "grok"
  THEN [switched EXCEPT !.current = "demo", !.optIn = FALSE]
  ELSE switched

\* A variant of reconcileProviderOnConfigChange that switches to Grok without
\* looking at the opt-in flag.
reconcileIgnoresOptIn(sel, configured) ==
  LET cleaned == cleanupStaleProviderSelection(sel, configured)
      switched == IF configured /\ cleaned.current = "demo"
                  THEN [cleaned EXCEPT !.current = "grok", !.stored = "grok"]
                  ELSE cleaned
  IN
  IF ~configured /\ switched.current = "grok"
  THEN [switched EXCEPT !.current = "demo", !.optIn = FALSE]
  ELSE switched

\* reconcileProviderOnConfigChange: the two flags are read first, then the
\* clean-up runs, then the two conditional switches.
reconcileProviderOnConfigChange(sel, configured) ==
  LET cleaned == cleanupStaleProviderSelection(sel, configured)
      switched == IF configured /\ ~sel.optIn /\ cleaned.current = "demo"
                  THEN [cleaned EXCEPT !.current = "grok", !.stored = "grok"]
                  ELSE cleaned
  IN
  IF ~configured /\ switched.current = "grok"
  THEN [switched EXCEPT !.current = "demo", !.optIn = FALSE]
  ELSE switched

\* A variant of setCurrentProvider that leaves the opt-in flag alone.
setCurrentProviderKeepsOptIn(sel, provider, configured) ==
  IF provider = "grok" /\ ~configured THEN sel
  ELSE [sel EXCEPT !.current = provider,
                   !.stored = IF configured THEN provider ELSE @]

\* setCurrentProvider(provider): rejected for 'grok' when Grok is not
\* configured; otherwise the provider becomes current, the opt-in flag is set
\* for 'demo' chosen while Grok is configured and cleared for 'grok', and the
\* choice is stored when Grok is configured.
setCurrentProvider(sel, provider, configured) ==
  IF provider = "grok" /\ ~configured THEN sel
  ELSE [sel EXCEPT !.current = provider,
                   !.optIn = IF provider = "demo" /\ configured THEN TRUE
                             ELSE IF provider = "grok" THEN FALSE ELSE @,
                   !.stored = IF configured THEN provider ELSE @]

\* The state of useVideoProvider: its three useState cells, and whether its
\* effects have run (the reconciliation on mount and the subscription).
HookState(mounted, provider, configured, optIn) ==
  [mounted |-> mounted, provider |-> provider, grokConfigured |-> configured,
   explicitDemoOptIn |-> optIn]

\* clips[i] === null (also an empty slot of a sparse clips array).
NoClip == [null |-> TRUE, url |-> "", prompt |-> "", duration |-> 0]

ClipData(url, prompt, duration) ==
  [null |-> FALSE, url |-> url, prompt |-> prompt, duration |-> duration]

GoodUrl == "https://cdn/clip.mp4"
BlobUrl == "blob:clip"

\* videoUrl.startsWith('http://') || startsWith('https://') || startsWith('blob:')
\* over the URLs the model's responses carry.
HasAcceptedScheme(url) == url \in {GoodUrl, BlobUrl}

\* A response of the Grok endpoint: the HTTP outcome and the JSON body's four
\* places a video URL may sit in ("" where the body has no such string).
Body(url, dataUrl, videoUrl, dataVideoUrl) ==
  [ok |-> TRUE, url |-> url, dataUrl |-> dataUrl, videoUrl |-> videoUrl,
   dataVideoUrl |-> dataVideoUrl]

GrokResponses ==
  { [ok |-> FALSE, url |-> "", dataUrl |-> "", videoUrl |-> "", dataVideoUrl |-> ""],
    Body(GoodUrl, "", "", ""), Body("", GoodUrl, "", ""), Body("", "", GoodUrl, ""),
    Body("", "", "", GoodUrl), Body("", "", "", "") }

\* The first non-empty of data.url, data.data.url, data.video_url,
\* data.data.video_url; "" when none (videoUrl stays null).
ExtractVideoUrl(data) ==
  IF data.url # "" THEN data.url
  ELSE IF data.dataUrl # "" THEN data.dataUrl
  ELSE IF data.videoUrl # "" THEN data.videoUrl
  ELSE data.dataVideoUrl

Ok(clip) == [ok |-> TRUE, clip |-> clip, error |-> ""]
Err(message) == [ok |-> FALSE, clip |-> NoClip, error |-> message]

HttpFailure == "Grok API request failed (500)"
MissingUrl == "Invalid response from Grok API: missing or empty video URL."
InvalidUrlFormat == "Grok API returned an invalid video URL format"
NotConfigured == "Grok AI is not configured"
NoCanvas == "Canvas context not available"

generateGrokVideo(configured, response, prompt, duration) ==
  IF ~configured THEN Err(NotConfigured)
  ELSE IF ~response.ok THEN Err(HttpFailure)
  ELSE IF ExtractVideoUrl(response) = "" THEN Err(MissingUrl)
  ELSE IF ~HasAcceptedScheme(ExtractVideoUrl(response)) THEN Err(InvalidUrlFormat)
  ELSE Ok(ClipData(ExtractVideoUrl(response), prompt, duration))

\* The demo provider records a canvas: a blob URL, or no canvas context.
DemoResponses == {"recorded", "noCanvas"}

demoGenerateClip(response, prompt, duration) ==
  IF response = "noCanvas" THEN Err(NoCanvas)
  ELSE Ok(ClipData(BlobUrl, prompt, duration))

\* generateClip of videoProvider.ts: dispatch on the module-level provider.
generateClip(provider, configured, response, prompt, duration) ==
  IF provider = "grok" THEN generateGrokVideo(configured, response, prompt, duration)
  ELSE demoGenerateClip(response, prompt, duration)

ProviderResponses(provider) ==
  IF provider = "grok" THEN GrokResponses ELSE DemoResponses

\* --------------------------------------------------------- useVideoSession
VARIABLES sessionId, segments, clips, isGenerating, generationError,
          generatingSegments, tasks, resets, rejections, starts, retryCalls, lastCall

sessionVars == <<sessionId, segments, clips, isGenerating, generationError>>

\* tick: the useState cell of useLiveGenerationProgress.
VARIABLES tick

progressVars == <<tick>>

vars == <<sessions, nextSessionId, nextSegmentId, currentProvider, grokConfigured,
          envConfigured, runtimeConfig, explicitDemoOptIn, storedProvider,
          ENV_GROK_API_ENDPOINT, ENV_GROK_API_KEY, grokApiEndpoint, grokApiKey,
          listeners, nextHandler, delivered, saveArgs,
          providerHook,
          sessionId, segments, clips, isGenerating, generationError,
          generatingSegments, tasks, resets, rejections, starts, retryCalls, lastCall,
          tick>>

NoSession == 0      \* sessionId: null (the actor's ids start at 1)
NoError == ""       \* generationError: null

\* What a rejected actor call throws when the actor itself did not trap.
StoreUnavailable == "Session store call rejected"

\* The last call of the hook's public API and how it returned (history).
NoCall == [op |-> "none", index |-> 0, result |-> ""]
Call(op, index, result) == [op |-> op, index |-> index, result |-> result]

\* Array(clipCount).fill(prompt)
FillPrompts(prompt, clipCount) == [k \in 1..clipCount |-> prompt]

\* prev.segments.every(s => completed || failed)
AllDone(segs) ==
  \A k \in 1..Len(segs) : segs[k].status.kind \in {"completed", "failed"}

\* new Array(session.segments.length).fill(null)
NullClips(n) == [k \in 1..n |-> NoClip]

\* newClips = [...prev.clips]; newClips[i] = clipData (i zero-based; slots the
\* assignment skips over are empty).
SetClip(prevClips, i, clip) ==
  [k \in 1..(IF Len(prevClips) > i + 1 THEN Len(prevClips) ELSE i + 1) |->
     IF k = i + 1 THEN clip
     ELSE IF k <= Len(prevClips) THEN prevClips[k]
     ELSE NoClip]

\* A loop head that tests only the statuses and not the guard set.
LoopSkipsStatusOnly(snap, guard, i) ==
  \/ snap[i + 1].status.kind = "completed"
  \/ snap[i + 1].status.kind = "generating"

\* The three `continue`s at the head of the loop body: the guard set, and the
\* status of segments[i] in the array generateClips was called with.
LoopSkips(snap, guard, i) ==
  \/ i \in guard
  \/ snap[i + 1].status.kind = "completed"
  \/ snap[i + 1].status.kind = "generating"

\* A loop that starts one index late: it takes from + 1 whatever from is.
NextIndexFromOne(snap, guard, from) ==
  IF from + 1 >= Len(snap) THEN Len(snap) ELSE from + 1

\* The first index >= from the loop does not skip; Len(snap) when none is left.
RECURSIVE NextIndex(_, _, _)
NextIndex(snap, guard, from) ==
  IF from >= Len(snap) THEN Len(snap)
  ELSE IF LoopSkips(snap, guard, from) THEN NextIndex(snap, guard, from + 1)
  ELSE from

\* retrySegment without its third early return (the guard-set test).
RetryReturnsEarlyNoGuard(sid, segs, guard, index) ==
  \/ sid = NoSession
  \/ index >= Len(segs)

\* The early returns of retrySegment before its first await.
RetryReturnsEarly(sid, segs, guard, index) ==
  \/ sid = NoSession
  \/ index >= Len(segs)
  \/ index \in guard

\* A startGeneration without the preflight.
PreflightNeverFails(provider, configured) == FALSE

\* The preflight of startGeneration.
PreflightFails(provider, configured) == provider = "grok" /\ ~configured

\* One asynchronous call of the hook: a run (startGeneration + generateClips)
\* or a retrySegment, suspended at the await named by pc.  snap is the segment
\* array the call closed over: the argument of generateClips, state.segments
\* of the render retrySegment was taken from.
NewTask(kind, pc, sid, i, prompt, clipCount, perClipDuration, epoch) ==
  [kind |-> kind, pc |-> pc, sid |-> sid, i |-> i, snap |-> <<>>,
   prompt |-> prompt, clipCount |-> clipCount, perClipDuration |-> perClipDuration,
   duration |-> 0, clip |-> NoClip, err |-> "", epoch |-> epoch,
   log |-> <<>>]

TaskIds == DOMAIN tasks
Runs == {id \in TaskIds : tasks[id].kind = "run"}
Retries == {id \in TaskIds : tasks[id].kind = "retry"}
AttemptPcs == {"pushGen", "getGen", "provider", "pushDone", "getDone", "pushFail", "getFail"}

\* ----------------------------------------------- useLiveGenerationProgress
\* The label's text as the values it is built from: `${completed} of ${total}
\* clip(s) completed`, `All ${total} clip(s) completed`, `Generating clip
\* ${clip} of ${total}...`, 'Preparing...'.
CountLabel(completed, total) ==
  [text |-> "of-completed", completed |-> completed, clip |-> 0, total |-> total]
AllLabel(total) ==
  [text |-> "all-completed", completed |-> total, clip |-> 0, total |-> total]
GeneratingLabel(clip, total) ==
  [text |-> "generating", completed |-> 0, clip |-> clip, total |-> total]
PreparingLabel == [text |-> "preparing", completed |-> 0, clip |-> 0, total |-> 0]

\* segments.filter(s => s.status.__kind__ === kind).length
CountOf(segs, kind) == Cardinality({k \in 1..Len(segs) : segs[k].status.kind = kind})

\* segments.findIndex(s => s.status.__kind__ === 'generating'); -1 when none.
GeneratingIndex(segs) ==
  IF \E k \in 1..Len(segs) : segs[k].status.kind = "generating"
  THEN (CHOOSE k \in 1..Len(segs) :
          /\ segs[k].status.kind = "generating"
          /\ \A m \in 1..(k - 1) : segs[m].status.kind # "generating") - 1
  ELSE -1

\* The label useLiveGenerationProgress computes from the segments.
ProgressLabel(segs) ==
  IF Len(segs) = 0 THEN PreparingLabel
  ELSE IF CountOf(segs, "completed") = Len(segs) THEN AllLabel(Len(segs))
  ELSE IF CountOf(segs, "completed") + CountOf(segs, "failed") = Len(segs)
       THEN CountLabel(CountOf(segs, "completed"), Len(segs))
  ELSE IF GeneratingIndex(segs) # -1
       THEN GeneratingLabel(GeneratingIndex(segs) + 1, Len(segs))
  ELSE CountLabel(CountOf(segs, "completed"), Len(segs))

Min(a, b) == IF a < b THEN a ELSE b

\* The progress is a fraction of segments.length; Scale is the denominator
\* the model multiplies it by (1 for the empty list, whose progress is 0).
Scale(segs) == IF Len(segs) = 0 THEN 1 ELSE Len(segs)

\* Math.min((tick * 2) % 90, 90)
TickProgress(t) == Min((t * 2) % 90, 90)

\* A variant of the progress that counts the clip being generated as completed.
ScaledProgressCountsCurrent(segs, t) ==
  LET total == Len(segs)
      completedCount == CountOf(segs, "completed")
      failedCount == CountOf(segs, "failed")
  IN
  IF total = 0 THEN 0
  ELSE IF completedCount = total THEN 100 * total
  ELSE IF completedCount + failedCount = total THEN 100 * total
  ELSE IF GeneratingIndex(segs) # -1 THEN 100 * (completedCount + 1)
  ELSE 100 * completedCount

\* A variant of the progress without the branch for a finished run in which
\* some clip failed.
ScaledProgressNoFailedBranch(segs, t) ==
  LET total == Len(segs)
      completedCount == CountOf(segs, "completed")
  IN
  IF total = 0 THEN 0
  ELSE IF completedCount = total THEN 100 * total
  ELSE IF GeneratingIndex(segs) # -1
       THEN Min(100 * completedCount + TickProgress(t), 99 * total)
  ELSE 100 * completedCount

\* The progress useLiveGenerationProgress computes, multiplied by Scale(segs)
\* so that it is an integer: baseProgress + currentClipProgress is
\* (100 * completedCount + tickProgress) / segments.length.
ScaledProgress(segs, t) ==
  LET total == Len(segs)
      completedCount == CountOf(segs, "completed")
      failedCount == CountOf(segs, "failed")
  IN
  IF total = 0 THEN 0
  ELSE IF completedCount = total THEN 100 * total
  ELSE IF completedCount + failedCount = total THEN 100 * total
  ELSE IF GeneratingIndex(segs) # -1
       THEN Min(100 * completedCount + TickProgress(t), 99 * total)
  ELSE 100 * completedCount

\* ------------------------------------------------------------------- Init
\* The actor after installation and the session hook after its first render.
InitSession ==
  /\ sessions = <<>>
  /\ nextSessionId = 1
  /\ nextSegmentId = 1
  /\ sessionId = NoSession
  /\ segments = <<>>
  /\ clips = <<>>
  /\ isGenerating = FALSE
  /\ generationError = NoError
  /\ generatingSegments = {}
  /\ tasks = <<>>
  /\ resets = 0
  /\ rejections = 0
  /\ starts = 0
  /\ retryCalls = 0
  /\ lastCall = NoCall
  /\ tick = 0

\* The session hook starts with either provider current and Grok configured or
\* not; the provider selection does not change while sessions run.
Init ==
  /\ InitSession
  /\ currentProvider \in {"grok", "demo"}
  /\ grokConfigured \in BOOLEAN
  /\ envConfigured = FALSE
  /\ runtimeConfig = grokConfigured
  /\ ConfigOf(envConfigured, runtimeConfig)
  /\ explicitDemoOptIn = FALSE
  /\ storedProvider = NoStoredProvider
  /\ providerHook = HookState(FALSE, currentProvider, grokConfigured, FALSE)

\* An actor call resolves (ok) or is rejected by the transport; rejections are
\* counted up to MaxRejections.
StoreCall(ok) ==
  /\ ok \/ rejections < MaxRejections
  /\ rejections' = IF ok THEN rejections ELSE rejections + 1

\* A run that has returned or thrown stays in `tasks` as history; its arguments
\* and locals are gone (the session id, the index and the log are kept).
Ended(t, pc) ==
  [t EXCEPT !.pc = pc, !.snap = <<>>, !.clip = NoClip, !.err = "", !.duration = 0,
            !.prompt = "", !.clipCount = 0, !.perClipDuration = 0]

\* The pending calls with a new one added under the least free id, and with a
\* finished one dropped.
FreshId == CHOOSE n \in 1..(Cardinality(DOMAIN tasks) + 1) :
             n \notin DOMAIN tasks /\ \A m \in 1..(n - 1) : m \in DOMAIN tasks

TasksWith(t) ==
  [x \in DOMAIN tasks \cup {FreshId} |-> IF x = FreshId THEN t ELSE tasks[x]]

TasksWithout(id) == [x \in DOMAIN tasks \ {id} |-> tasks[x]]

\* ------------------------------------------------------- startGeneration
\* startGeneration up to its first await (actor.createSession).
StartGeneration(prompt, clipCount, perClipDuration) ==
  /\ starts < MaxRuns
  /\ ~isGenerating
  /\ IF PreflightFails(currentProvider, grokConfigured)
     THEN /\ lastCall' = Call("startGeneration", 0, "notConfigured")
          /\ UNCHANGED <<sessionVars, tasks, starts>>
     ELSE /\ starts' = starts + 1
          /\ isGenerating' = TRUE
          /\ generationError' = NoError
          /\ tasks' = TasksWith(NewTask("run", "create", NoSession, 0, prompt,
                                         clipCount, perClipDuration, resets))
          /\ lastCall' = Call("startGeneration", 0, "started")
          /\ UNCHANGED <<sessionId, segments, clips>>
  /\ UNCHANGED <<storeVars, providerVars, progressVars, generatingSegments, resets, rejections,
                 retryCalls>>

\* A catch block that reports the error and leaves isGenerating as it is.
StartFailedStillGenerating(id, message) ==
  /\ generationError' = message
  /\ tasks' = TasksWithout(id)
  /\ UNCHANGED <<sessionId, segments, clips, isGenerating, generatingSegments>>

\* The catch block of startGeneration.
StartFailed(id, message) ==
  /\ isGenerating' = FALSE
  /\ generationError' = message
  /\ tasks' = TasksWithout(id)
  /\ UNCHANGED <<sessionId, segments, clips, generatingSegments>>

\* The loop of generateClips from index `from` up to its next await, or to its
\* end and the closing setState. t is the task, guard0 the guard set and
\* segsNow / genNow the segments and isGenerating the step has produced so far.
RunLoop(id, t, guard0, segsNow, genNow, from) ==
  LET j == NextIndex(t.snap, guard0, from) IN
  IF j < Len(t.snap)
  THEN /\ generatingSegments' = guard0 \cup {j}
       /\ tasks' = [tasks EXCEPT ![id] =
                      [t EXCEPT !.pc = "pushGen", !.i = j, !.clip = NoClip,
                                !.err = "", !.duration = 0]]
       /\ isGenerating' = genNow
  ELSE /\ generatingSegments' = guard0
       /\ tasks' = [tasks EXCEPT ![id] = Ended([t EXCEPT !.i = j], "done")]
       /\ isGenerating' = ~AllDone(segsNow)

\* await actor.createSession(...) resolves or rejects.
CreateSessionResolve(id, ok) ==
  LET t == tasks[id]
      segmentPrompts == FillPrompts(t.prompt, t.clipCount)
      trap == CreateSessionTrap(t.prompt, segmentPrompts, t.perClipDuration)
  IN
  /\ t.kind = "run" /\ t.pc = "create"
  /\ UNCHANGED <<lastCall, starts, retryCalls>>
  /\ StoreCall(ok)
  /\ UNCHANGED <<providerVars, progressVars, resets>>
  /\ IF ok /\ trap = ""
     THEN /\ sessions' = SessionsAdd(sessions, nextSessionId,
                NewSession(t.prompt, segmentPrompts, t.perClipDuration,
                           nextSessionId, nextSegmentId))
          /\ nextSessionId' = nextSessionId + 1
          /\ nextSegmentId' = nextSegmentId + Len(segmentPrompts)
          /\ tasks' = [tasks EXCEPT ![id].pc = "fetch", ![id].sid = nextSessionId]
          /\ UNCHANGED <<sessionVars, generatingSegments>>
     ELSE /\ StartFailed(id, IF ok THEN trap ELSE StoreUnavailable)
          /\ UNCHANGED storeVars

\* await actor.getSession(sessionId) of startGeneration resolves or rejects;
\* on success the state is initialised and generateClips starts.
FetchSessionResolve(id, ok) ==
  LET t == tasks[id]
      session == toPublic(sessions[t.sid])
  IN
  /\ t.kind = "run" /\ t.pc = "fetch"
  /\ UNCHANGED <<lastCall, starts, retryCalls>>
  /\ StoreCall(ok)
  /\ UNCHANGED <<storeVars, providerVars, progressVars, resets>>
  /\ IF ok
     THEN /\ sessionId' = t.sid
          /\ segments' = session.segments
          /\ clips' = NullClips(Len(session.segments))
          /\ generationError' = NoError
          /\ RunLoop(id, [t EXCEPT !.snap = session.segments], generatingSegments,
                     session.segments, TRUE, 0)
     ELSE StartFailed(id, StoreUnavailable)

\* ------------------------------------------- the per-segment unit of work
\* A `finally` that is skipped when the catch block is left by an exception.
EndAttemptLeaksOnThrow(id, t, segsNow, genNow, thrown) ==
  LET guard0 == IF thrown THEN generatingSegments ELSE generatingSegments \ {t.i} IN
  IF t.kind = "retry"
  THEN /\ generatingSegments' = guard0
       /\ isGenerating' = ~AllDone(segsNow)
       /\ tasks' = TasksWithout(id)
  ELSE IF thrown
  THEN /\ generatingSegments' = guard0
       /\ isGenerating' = genNow
       /\ tasks' = [tasks EXCEPT ![id] = Ended(t, "aborted")]
  ELSE RunLoop(id, t, guard0, segsNow, genNow, t.i + 1)

\* `finally`, and what follows it: generateClips goes on to the next index (or
\* is left by the exception a catch block threw); retrySegment's finally also
\* recomputes isGenerating.
EndAttempt(id, t, segsNow, genNow, thrown) ==
  LET guard0 == generatingSegments \ {t.i} IN
  IF t.kind = "retry"
  THEN /\ generatingSegments' = guard0
       /\ isGenerating' = ~AllDone(segsNow)
       /\ tasks' = TasksWithout(id)
  ELSE IF thrown
  THEN /\ generatingSegments' = guard0
       /\ isGenerating' = genNow
       /\ tasks' = [tasks EXCEPT ![id] = Ended(t, "aborted")]
  ELSE RunLoop(id, t, guard0, segsNow, genNow, t.i + 1)

\* A throw inside `try`: control enters `catch`, which awaits the Failed push.
EnterCatch(id, t, message) ==
  tasks' = [tasks EXCEPT ![id] = [t EXCEPT !.pc = "pushFail", !.err = message]]

\* await actor.updateSegmentStatus(sessionId, BigInt(i), generating)
PushGeneratingResolve(id, ok) ==
  LET t == tasks[id] IN
  /\ t.pc = "pushGen"
  /\ UNCHANGED <<lastCall, starts, retryCalls>>
  /\ StoreCall(ok)
  /\ UNCHANGED <<providerVars, progressVars, resets, sessionVars, generatingSegments,
                 nextSessionId, nextSegmentId>>
  /\ IF ok
     THEN /\ sessions' = UpdateSegmentStatus(sessions, t.sid, t.i, Generating)
          /\ tasks' = [tasks EXCEPT ![id].pc = "getGen"]
     ELSE /\ EnterCatch(id, t, StoreUnavailable)
          /\ UNCHANGED sessions

\* A retrySegment that takes the duration from the first clip, 10 when there
\* is none (`clips[0]?.duration || 10`), and not from the fetched session.
GetGeneratingResolveFirstClip(id, ok) ==
  LET t == tasks[id]
      session == toPublic(sessions[t.sid])
      first == IF Len(clips) > 0 /\ clips[1].duration # 0 THEN clips[1].duration ELSE 10
  IN
  /\ t.pc = "getGen"
  /\ UNCHANGED <<lastCall, starts, retryCalls>>
  /\ StoreCall(ok)
  /\ UNCHANGED <<storeVars, providerVars, progressVars, resets, sessionId, clips,
                 generationError, generatingSegments>>
  /\ IF ok
     THEN /\ segments' = session.segments
          /\ isGenerating' = IF t.kind = "retry" THEN TRUE ELSE isGenerating
          /\ tasks' = [tasks EXCEPT ![id].pc = "provider",
                                    ![id].duration = IF t.kind = "retry" THEN first
                                                     ELSE session.perClipDuration]
     ELSE /\ EnterCatch(id, t, StoreUnavailable)
          /\ UNCHANGED <<segments, isGenerating>>

\* await actor.getSession(sessionId) after the Generating push, the setState
\* that follows it, and the call of generateClip.
GetGeneratingResolve(id, ok) ==
  LET t == tasks[id]
      session == toPublic(sessions[t.sid])
  IN
  /\ t.pc = "getGen"
  /\ UNCHANGED <<lastCall, starts, retryCalls>>
  /\ StoreCall(ok)
  /\ UNCHANGED <<storeVars, providerVars, progressVars, resets, sessionId, clips,
                 generationError, generatingSegments>>
  /\ IF ok
     THEN /\ segments' = session.segments
          /\ isGenerating' = IF t.kind = "retry" THEN TRUE ELSE isGenerating
          /\ tasks' = [tasks EXCEPT ![id].pc = "provider",
                                    ![id].duration = session.perClipDuration]
     ELSE /\ EnterCatch(id, t, StoreUnavailable)
          /\ UNCHANGED <<segments, isGenerating>>

\* A generateClip that makes the demo provider current when Grok fails.
ProviderResolveFallsBack(id, response) ==
  LET t == tasks[id]
      r == generateClip(currentProvider, grokConfigured, response, t.prompt, t.duration)
      logged == [t EXCEPT !.log = Append(@, [i |-> t.i, ok |-> r.ok])]
  IN
  /\ t.pc = "provider"
  /\ response \in ProviderResponses(currentProvider)
  /\ UNCHANGED <<lastCall, starts, retryCalls>>
  /\ UNCHANGED rejections
  /\ currentProvider' = IF r.ok THEN currentProvider ELSE "demo"
  /\ UNCHANGED <<storeVars, explicitDemoOptIn, storedProvider, providerHook, configVars,
                 progressVars, resets, sessionVars, generatingSegments>>
  /\ IF r.ok
     THEN tasks' = [tasks EXCEPT ![id] = [logged EXCEPT !.pc = "pushDone", !.clip = r.clip]]
     ELSE EnterCatch(id, logged, r.error)

\* await generateClip(segment.prompt, Number(session.perClipDuration), i, ...)
ProviderResolve(id, response) ==
  LET t == tasks[id]
      r == generateClip(currentProvider, grokConfigured, response, t.prompt, t.duration)
      logged == [t EXCEPT !.log = Append(@, [i |-> t.i, ok |-> r.ok])]
  IN
  /\ t.pc = "provider"
  /\ response \in ProviderResponses(currentProvider)
  /\ UNCHANGED <<lastCall, starts, retryCalls>>
  /\ UNCHANGED rejections
  /\ UNCHANGED <<storeVars, providerVars, progressVars, resets, sessionVars, generatingSegments>>
  /\ IF r.ok
     THEN tasks' = [tasks EXCEPT ![id] = [logged EXCEPT !.pc = "pushDone", !.clip = r.clip]]
     ELSE EnterCatch(id, logged, r.error)

\* await actor.updateSegmentStatus(sessionId, BigInt(i), completed)
PushCompletedResolve(id, ok) ==
  LET t == tasks[id] IN
  /\ t.pc = "pushDone"
  /\ UNCHANGED <<lastCall, starts, retryCalls>>
  /\ StoreCall(ok)
  /\ UNCHANGED <<providerVars, progressVars, resets, sessionVars, generatingSegments,
                 nextSessionId, nextSegmentId>>
  /\ IF ok
     THEN /\ sessions' = UpdateSegmentStatus(sessions, t.sid, t.i, Completed)
          /\ tasks' = [tasks EXCEPT ![id].pc = "getDone"]
     ELSE /\ EnterCatch(id, t, StoreUnavailable)
          /\ UNCHANGED sessions

\* await actor.getSession(sessionId) after the Completed push; the setState
\* stores the clip and the fetched segments, then `finally`.
GetCompletedResolve(id, ok) ==
  LET t == tasks[id]
      session == toPublic(sessions[t.sid])
  IN
  /\ t.pc = "getDone"
  /\ UNCHANGED <<lastCall, starts, retryCalls>>
  /\ StoreCall(ok)
  /\ UNCHANGED <<storeVars, providerVars, progressVars, resets, sessionId, generationError>>
  /\ IF ok
     THEN /\ segments' = session.segments
          /\ clips' = SetClip(clips, t.i, t.clip)
          /\ EndAttempt(id, t, session.segments, isGenerating, FALSE)
     ELSE /\ EnterCatch(id, t, StoreUnavailable)
          /\ UNCHANGED <<segments, clips, isGenerating, generatingSegments>>

\* catch: await actor.updateSegmentStatus(sessionId, BigInt(i), failed(message));
\* a rejection here leaves the catch block by exception.
PushFailedResolve(id, ok) ==
  LET t == tasks[id] IN
  /\ t.pc = "pushFail"
  /\ UNCHANGED <<lastCall, starts, retryCalls>>
  /\ StoreCall(ok)
  /\ UNCHANGED <<providerVars, progressVars, resets, sessionId, segments, clips, generationError,
                 nextSessionId, nextSegmentId>>
  /\ IF ok
     THEN /\ sessions' = UpdateSegmentStatus(sessions, t.sid, t.i, Failed(t.err))
          /\ tasks' = [tasks EXCEPT ![id].pc = "getFail"]
          /\ UNCHANGED <<isGenerating, generatingSegments>>
     ELSE /\ EndAttempt(id, t, segments, isGenerating, TRUE)
          /\ UNCHANGED sessions

\* catch: await actor.getSession(sessionId), the setState, then `finally`.
GetFailedResolve(id, ok) ==
  LET t == tasks[id]
      session == toPublic(sessions[t.sid])
  IN
  /\ t.pc = "getFail"
  /\ UNCHANGED <<lastCall, starts, retryCalls>>
  /\ StoreCall(ok)
  /\ UNCHANGED <<storeVars, providerVars, progressVars, resets, sessionId, clips, generationError>>
  /\ IF ok
     THEN /\ segments' = session.segments
          /\ EndAttempt(id, t, session.segments, isGenerating, FALSE)
     ELSE /\ UNCHANGED segments
          /\ EndAttempt(id, t, segments, isGenerating, TRUE)

\* ------------------------------------------------------------ retrySegment
\* retrySegment(index) up to its first await.
RetrySegment(index) ==
  /\ retryCalls < MaxRetryCalls
  /\ retryCalls' = retryCalls + 1
  /\ UNCHANGED <<storeVars, providerVars, progressVars, resets, rejections, starts, sessionVars>>
  /\ IF RetryReturnsEarly(sessionId, segments, generatingSegments, index)
     THEN /\ lastCall' = Call("retrySegment", index, "returned")
          /\ UNCHANGED <<generatingSegments, tasks>>
     ELSE /\ generatingSegments' = generatingSegments \cup {index}
          /\ tasks' = TasksWith([NewTask("retry", "pushGen", sessionId, index,
                                          segments[index + 1].prompt, 0, 0, resets)
                                    EXCEPT !.snap = segments])
          /\ lastCall' = Call("retrySegment", index, "started")

\* ------------------------------------------------------------------- reset
\* A variant of reset() that leaves the guard set as it is.
ResetKeepsGuards ==
  /\ resets < MaxResets
  /\ sessionId' = NoSession
  /\ segments' = <<>>
  /\ clips' = <<>>
  /\ isGenerating' = FALSE
  /\ generationError' = NoError
  /\ resets' = resets + 1
  /\ lastCall' = Call("reset", 0, "")
  /\ UNCHANGED <<storeVars, providerVars, progressVars, generatingSegments, tasks,
                 rejections, starts, retryCalls>>

Reset ==
  /\ resets < MaxResets
  /\ generatingSegments' = {}
  /\ sessionId' = NoSession
  /\ segments' = <<>>
  /\ clips' = <<>>
  /\ isGenerating' = FALSE
  /\ generationError' = NoError
  /\ resets' = resets + 1
  /\ lastCall' = Call("reset", 0, "")
  /\ UNCHANGED <<storeVars, providerVars, progressVars, tasks, rejections, starts, retryCalls>>

\* -------------------------------------------------------------------- Next
\* The calls of the hook's API other than reset(), and the resolutions of the
\* awaits; maxCount bounds the clipCount of a run and the index of a retry.
Calls(maxCount) ==
  \/ \E prompt \in Prompts, clipCount \in ClipCounts(maxCount),
        perClipDuration \in Durations :
        StartGeneration(prompt, clipCount, perClipDuration)
  \/ \E index \in 0..(maxCount - 1) : RetrySegment(index)
  \/ \E id \in TaskIds, ok \in BOOLEAN : CreateSessionResolve(id, ok)
  \/ \E id \in TaskIds, ok \in BOOLEAN : FetchSessionResolve(id, ok)
  \/ \E id \in TaskIds, ok \in BOOLEAN : PushGeneratingResolve(id, ok)
  \/ \E id \in TaskIds, ok \in BOOLEAN : GetGeneratingResolve(id, ok)
  \/ \E id \in TaskIds, response \in ProviderResponses(currentProvider) :
        ProviderResolve(id, response)
  \/ \E id \in TaskIds, ok \in BOOLEAN : PushCompletedResolve(id, ok)
  \/ \E id \in TaskIds, ok \in BOOLEAN : GetCompletedResolve(id, ok)
  \/ \E id \in TaskIds, ok \in BOOLEAN : PushFailedResolve(id, ok)
  \/ \E id \in TaskIds, ok \in BOOLEAN : GetFailedResolve(id, ok)

NextNoReset == Calls(MaxClips)

Next ==
  \/ Calls(MaxClipsReset)
  \/ Reset

\* The runs in which reset() may be called start with Grok selected.
InitGrok == Init /\ currentProvider = "grok"

Spec == InitGrok /\ [][Next]_vars

SpecNoReset == Init /\ [][NextNoReset]_vars

\* ---------------------------------------------- every call returns in time
\* The await call id is suspended at is answered: the store or the provider
\* returns, successfully or with an error.
Returns(id) ==
  /\ id \in TaskIds
  /\ \/ \E ok \in BOOLEAN : CreateSessionResolve(id, ok)
     \/ \E ok \in BOOLEAN : FetchSessionResolve(id, ok)
     \/ \E ok \in BOOLEAN : PushGeneratingResolve(id, ok)
     \/ \E ok \in BOOLEAN : GetGeneratingResolve(id, ok)
     \/ \E response \in ProviderResponses(currentProvider) : ProviderResolve(id, response)
     \/ \E ok \in BOOLEAN : PushCompletedResolve(id, ok)
     \/ \E ok \in BOOLEAN : GetCompletedResolve(id, ok)
     \/ \E ok \in BOOLEAN : PushFailedResolve(id, ok)
     \/ \E ok \in BOOLEAN : GetFailedResolve(id, ok)

NextLive == Calls(MaxClipsLive)

\* No reset(); every pending call of the store and of the provider returns.
SpecLive ==
  /\ Init
  /\ [][NextLive]_vars
  /\ \A id \in 1..MaxTasks : WF_vars(Returns(id))

\* ------------------------------------------------- the actor called directly
\* Any caller may call createSession and updateSegmentStatus with any
\* arguments; the hook is idle.
hookVars == <<sessionVars, generatingSegments, tasks, resets, rejections, starts,
              retryCalls>>

SegmentPromptLists ==
  UNION {[1..n -> {"sunset", "dawn"}] : n \in 0..MaxPrompts}

Statuses == {Queued, Generating, Completed, Failed("Generation failed")}

CreateSession(originalPrompt, segmentPrompts, perClipDuration) ==
  LET trap == CreateSessionTrap(originalPrompt, segmentPrompts, perClipDuration) IN
  /\ nextSessionId <= MaxSessions
  /\ lastCall' = Call("createSession", 0, trap)
  /\ IF trap # ""
     THEN UNCHANGED storeVars
     ELSE /\ sessions' = SessionsAdd(sessions, nextSessionId,
                           NewSession(originalPrompt, segmentPrompts,
                                      perClipDuration, nextSessionId, nextSegmentId))
          /\ nextSegmentId' = nextSegmentId + Len(segmentPrompts)
          /\ nextSessionId' = nextSessionId + 1
  /\ UNCHANGED <<providerVars, hookVars, progressVars>>

UpdateSegmentStatusCall(sid, segmentId, newStatus) ==
  /\ IF sid \notin DOMAIN sessions
     THEN /\ lastCall' = Call("updateSegmentStatus", segmentId, "Session not found")
          /\ UNCHANGED storeVars
     ELSE /\ lastCall' = Call("updateSegmentStatus", segmentId, "")
          /\ sessions' = UpdateSegmentStatus(sessions, sid, segmentId, newStatus)
          /\ UNCHANGED <<nextSessionId, nextSegmentId>>
  /\ UNCHANGED <<providerVars, hookVars, progressVars>>

NextStore ==
  \/ \E originalPrompt \in Prompts, segmentPrompts \in SegmentPromptLists,
        perClipDuration \in Durations :
        CreateSession(originalPrompt, segmentPrompts, perClipDuration)
  \/ \E sid \in 1..MaxSessions, segmentId \in 0..(MaxSessions * MaxPrompts + 1),
        newStatus \in Statuses :
        UpdateSegmentStatusCall(sid, segmentId, newStatus)

SpecStore == InitGrok /\ [][NextStore]_vars

\* createSession alone, called with durations on both sides of each bound.
BoundaryDurations == {0, 1, MAX_CLIP_DURATION_SECONDS, MAX_CLIP_DURATION_SECONDS + 1}

NextCreate ==
  \E originalPrompt \in Prompts, segmentPrompts \in SegmentPromptLists,
     perClipDuration \in BoundaryDurations :
     CreateSession(originalPrompt, segmentPrompts, perClipDuration)

SpecCreate == InitGrok /\ [][NextCreate]_vars

\* ------------------------------------------------------------ the App's gate
MIN_DURATION == 55
MAX_DURATION == 65
MAX_SINGLE_CLIP_DURATION == 120

calculateTotalDuration(clipCount, perClipDuration) == clipCount * perClipDuration

\* An isWithinTolerance that lets a single clip of 0 seconds through.
isWithinToleranceFromZero(totalDuration, clipCount) ==
  IF clipCount = 1
  THEN totalDuration >= 0 /\ totalDuration <= MAX_SINGLE_CLIP_DURATION
  ELSE totalDuration >= MIN_DURATION /\ totalDuration <= MAX_DURATION

isWithinTolerance(totalDuration, clipCount) ==
  IF clipCount = 1
  THEN totalDuration > 0 /\ totalDuration <= MAX_SINGLE_CLIP_DURATION
  ELSE totalDuration >= MIN_DURATION /\ totalDuration <= MAX_DURATION

\* handleGenerate of App with the values of its three inputs: the two early
\* returns with a toast, then startGeneration.
HandleGenerate(prompt, clipCount, perClipDuration) ==
  IF prompt = ""
  THEN /\ lastCall' = Call("handleGenerate", 0, "Please enter a video prompt")
       /\ UNCHANGED <<storeVars, providerVars, progressVars, hookVars>>
  ELSE IF ~isWithinTolerance(calculateTotalDuration(clipCount, perClipDuration), clipCount)
  THEN /\ lastCall' = Call("handleGenerate", 0,
              "Please adjust your video settings to meet duration requirements")
       /\ UNCHANGED <<storeVars, providerVars, progressVars, hookVars>>
  ELSE StartGeneration(prompt, clipCount, perClipDuration)

\* The App with any integer in its two number inputs; the created session is
\* not fetched.
NextApp ==
  \/ \E prompt \in Prompts, clipCount \in 1..MaxAppClips,
        perClipDuration \in -1..MaxAppDuration :
        HandleGenerate(prompt, clipCount, perClipDuration)
  \/ \E id \in TaskIds, ok \in BOOLEAN : CreateSessionResolve(id, ok)

SpecApp == Init /\ [][NextApp]_vars

\* ------------------------------------------------------ provider selection
\* The first load of the page: localStorage is empty, Grok is configured only
\* through the build's environment; currentProvider = initializeProvider() has
\* run and useVideoProvider has rendered once (its effects have not run yet).
InitProvider ==
  /\ InitSession
  /\ envConfigured \in BOOLEAN
  /\ runtimeConfig = FALSE
  /\ grokConfigured = envConfigured
  /\ ConfigOf(envConfigured, runtimeConfig)
  /\ explicitDemoOptIn = FALSE
  /\ storedProvider = NoStoredProvider
  /\ currentProvider =
       initializeProvider(Selection("demo", FALSE, NoStoredProvider), envConfigured).current
  /\ providerHook = HookState(FALSE, currentProvider, grokConfigured, FALSE)

\* The selection as it stands, and the assignment of a new one.
CurrentSelection == Selection(currentProvider, explicitDemoOptIn, storedProvider)

SetSelection(sel) ==
  /\ currentProvider' = sel.current
  /\ explicitDemoOptIn' = sel.optIn
  /\ storedProvider' = sel.stored

\* The page is loaded again: localStorage is kept, the module variable is
\* initialised anew and the hook renders with fresh state.
Reload ==
  LET sel == initializeProvider(CurrentSelection, grokConfigured) IN
  /\ SetSelection(sel)
  /\ providerHook' = HookState(FALSE, sel.current, grokConfigured, sel.optIn)
  /\ lastCall' = Call("initializeProvider", 0, sel.current)
  /\ listeners' = {}
  /\ delivered' = NoneDelivered
  /\ saveArgs' = NoSaveArgs
  /\ UNCHANGED <<grokConfigured, envConfigured, runtimeConfig, ENV_GROK_API_ENDPOINT,
                 ENV_GROK_API_KEY, grokApiEndpoint, grokApiKey, nextHandler,
                 storeVars, hookVars, progressVars>>

\* The effects of useVideoProvider run after its first render: the
\* reconciliation on mount, and the subscription to configuration changes.
Mount ==
  LET sel == reconcileProviderOnConfigChange(CurrentSelection, grokConfigured) IN
  /\ ~providerHook.mounted
  /\ SetSelection(sel)
  /\ providerHook' = HookState(TRUE, sel.current, grokConfigured, sel.optIn)
  /\ lastCall' = Call("useVideoProvider", 0, sel.current)
  /\ saveArgs' = NoSaveArgs
  /\ UNCHANGED <<grokConfigured, envConfigured, runtimeConfig, ENV_GROK_API_ENDPOINT,
                 ENV_GROK_API_KEY, grokApiEndpoint, grokApiKey, listeners,
                 nextHandler, delivered, storeVars, hookVars, progressVars>>

\* The subscriber of the configuration-change event, run synchronously by
\* dispatchEvent of `op` once isGrokConfigured() returns `configured`.
ConfigChanged(op, configured) ==
  LET sel == reconcileProviderOnConfigChange(CurrentSelection, configured) IN
  /\ SetSelection(sel)
  /\ providerHook' = HookState(TRUE, sel.current, configured, sel.optIn)
  /\ lastCall' = Call(op, 0, sel.current)

\* A variant of the dispatch that also calls the handlers already removed.
DispatchToRemovedToo(op, configured) ==
  /\ delivered' = [h \in 1..MaxHandlers |-> IF h < nextHandler THEN 1 ELSE 0]
  /\ ConfigChanged(op, configured)

\* window.dispatchEvent(new CustomEvent(CONFIG_CHANGE_EVENT)): every handler
\* on the window is called once, the hook's subscriber among them.
DispatchConfigChange(op, configured) ==
  /\ delivered' = [h \in 1..MaxHandlers |-> IF h \in listeners THEN 1 ELSE 0]
  /\ ConfigChanged(op, configured)

\* The strings typed into the settings form.
EndpointInputs ==
  {<<Blank>>, <<"ftp://", "api.x.ai", "/v1">>, <<"https://">>,
   <<Blank, "https://", "api.x.ai", "/v1", "/", "?model=video", Blank>>}

ApiKeyInputs == {<<Blank>>, <<Blank, "xai-key", Blank>>}

\* saveRuntimeConfig returns { success: true } for these arguments, storage
\* permitting.
SaveAccepted(endpoint, apiKey) ==
  Trim(apiKey) # <<>> /\ validateAndNormalizeEndpoint(endpoint).valid

\* saveRuntimeConfig(endpoint, apiKey) from the settings form of the mounted
\* page.  An empty key or an invalid endpoint returns an error and nothing is
\* stored or dispatched.  `written` is the number of localStorage.setItem
\* calls that succeed before one throws (2: none throws; 1: the endpoint is
\* stored and the key is not); a throw returns an error without dispatching.
SaveRuntimeConfig(endpoint, apiKey, written) ==
  LET trimmedApiKey == Trim(apiKey)
      validation == validateAndNormalizeEndpoint(endpoint)
      endpointItem == IF written >= 1 THEN validation.normalized ELSE grokApiEndpoint
      apiKeyItem == IF written >= 2 THEN trimmedApiKey ELSE grokApiKey
      configured == isGrokConfigured(ENV_GROK_API_ENDPOINT, ENV_GROK_API_KEY,
                                     endpointItem, apiKeyItem)
  IN
  /\ providerHook.mounted
  /\ saveArgs' = SaveArgs(endpoint, apiKey, written)
  /\ IF trimmedApiKey = <<>>
     THEN /\ lastCall' = Call("saveRuntimeConfig", 0, "API key is required")
          /\ UNCHANGED <<currentProvider, explicitDemoOptIn, storedProvider,
                         providerHook, grokConfigured, runtimeConfig,
                         grokApiEndpoint, grokApiKey, delivered>>
     ELSE IF ~validation.valid
     THEN /\ lastCall' = Call("saveRuntimeConfig", 0, validation.error)
          /\ UNCHANGED <<currentProvider, explicitDemoOptIn, storedProvider,
                         providerHook, grokConfigured, runtimeConfig,
                         grokApiEndpoint, grokApiKey, delivered>>
     ELSE /\ grokApiEndpoint' = endpointItem
          /\ grokApiKey' = apiKeyItem
          /\ runtimeConfig' = isRuntimeConfigValid(loadRuntimeConfig(endpointItem, apiKeyItem))
          /\ grokConfigured' = configured
          /\ IF written = 2
             THEN DispatchConfigChange("saveRuntimeConfig", configured)
             ELSE /\ lastCall' = Call("saveRuntimeConfig", 0,
                                      "Failed to save configuration to browser storage")
                  /\ UNCHANGED <<currentProvider, explicitDemoOptIn, storedProvider,
                                 providerHook, delivered>>
  /\ UNCHANGED <<envConfigured, ENV_GROK_API_ENDPOINT, ENV_GROK_API_KEY, listeners,
                 nextHandler, storeVars, hookVars, progressVars>>

\* clearRuntimeConfig(): the two items are removed and the event dispatched;
\* the build's environment variables, if set, still configure Grok.
ClearRuntimeConfig ==
  LET configured == isGrokConfigured(ENV_GROK_API_ENDPOINT, ENV_GROK_API_KEY, <<>>, <<>>) IN
  /\ providerHook.mounted
  /\ grokApiEndpoint' = <<>>
  /\ grokApiKey' = <<>>
  /\ runtimeConfig' = FALSE
  /\ grokConfigured' = configured
  /\ saveArgs' = NoSaveArgs
  /\ DispatchConfigChange("clearRuntimeConfig", configured)
  /\ UNCHANGED <<envConfigured, ENV_GROK_API_ENDPOINT, ENV_GROK_API_KEY, listeners,
                 nextHandler, storeVars, hookVars, progressVars>>

\* onConfigChange(callback): a new handler is added to the window; the
\* function it returns removes that handler.
OnConfigChange ==
  /\ nextHandler <= MaxHandlers
  /\ listeners' = listeners \cup {nextHandler}
  /\ nextHandler' = nextHandler + 1
  /\ lastCall' = Call("onConfigChange", nextHandler, "")
  /\ saveArgs' = NoSaveArgs
  /\ UNCHANGED <<currentProvider, explicitDemoOptIn, storedProvider, providerHook,
                 grokConfigured, envConfigured, runtimeConfig, ENV_GROK_API_ENDPOINT,
                 ENV_GROK_API_KEY, grokApiEndpoint, grokApiKey, delivered,
                 storeVars, hookVars, progressVars>>

\* The function onConfigChange returned for handler h is called:
\* removeEventListener, which does nothing for a handler already removed.
Unsubscribe(h) ==
  /\ h < nextHandler
  /\ listeners' = listeners \ {h}
  /\ lastCall' = Call("unsubscribe", h, "")
  /\ saveArgs' = NoSaveArgs
  /\ UNCHANGED <<currentProvider, explicitDemoOptIn, storedProvider, providerHook,
                 grokConfigured, envConfigured, runtimeConfig, ENV_GROK_API_ENDPOINT,
                 ENV_GROK_API_KEY, grokApiEndpoint, grokApiKey, nextHandler,
                 delivered, storeVars, hookVars, progressVars>>

\* A variant of handleProviderChange in which neither the hook nor
\* setCurrentProvider checks that Grok is configured.
HandleProviderChangeUnchecked(newProvider) ==
  /\ providerHook.mounted
  /\ currentProvider' = newProvider
  /\ explicitDemoOptIn' = IF newProvider = "demo" /\ grokConfigured THEN TRUE
                          ELSE IF newProvider = "grok" THEN FALSE
                          ELSE explicitDemoOptIn
  /\ storedProvider' = IF grokConfigured THEN newProvider ELSE storedProvider
  /\ providerHook' = [providerHook EXCEPT !.provider = newProvider,
                                          !.explicitDemoOptIn = explicitDemoOptIn']
  /\ lastCall' = Call("handleProviderChange", 0, newProvider)
  /\ saveArgs' = NoSaveArgs
  /\ UNCHANGED <<grokConfigured, envConfigured, runtimeConfig, ENV_GROK_API_ENDPOINT,
                 ENV_GROK_API_KEY, grokApiEndpoint, grokApiKey, listeners,
                 nextHandler, delivered, storeVars, hookVars, progressVars>>

\* handleProviderChange(newProvider) of the mounted hook.
HandleProviderChange(newProvider) ==
  /\ providerHook.mounted
  /\ IF newProvider = "grok" /\ ~providerHook.grokConfigured
     THEN /\ lastCall' = Call("handleProviderChange", 0, "rejected")
          /\ UNCHANGED <<currentProvider, explicitDemoOptIn, storedProvider,
                         providerHook>>
     ELSE LET sel == setCurrentProvider(CurrentSelection, newProvider, grokConfigured) IN
          /\ SetSelection(sel)
          /\ providerHook' = [providerHook EXCEPT !.provider = newProvider,
                                                  !.explicitDemoOptIn = sel.optIn]
          /\ lastCall' = Call("handleProviderChange", 0, newProvider)
  /\ saveArgs' = NoSaveArgs
  /\ UNCHANGED <<grokConfigured, envConfigured, runtimeConfig, ENV_GROK_API_ENDPOINT,
                 ENV_GROK_API_KEY, grokApiEndpoint, grokApiKey, listeners,
                 nextHandler, delivered, storeVars, hookVars, progressVars>>

\* The provider selection changes while the session hook of the same page
\* runs; a reload of the page is modelled for the selection only.
NextProvider ==
  \/ Calls(MaxClipsSelecting)
  \/ Reload
  \/ Mount
  \/ \E endpoint \in {<<>>, SavedEndpoint} : SaveRuntimeConfig(endpoint, SavedApiKey, 2)
  \/ ClearRuntimeConfig
  \/ \E newProvider \in {"grok", "demo"} : HandleProviderChange(newProvider)

SpecProvider == InitProvider /\ [][NextProvider]_vars

\* The provider selection on its own, started from any contents of
\* localStorage (which every tab of the origin writes) with either provider
\* current; the session hook is idle.
InitAnySelection ==
  /\ InitSession
  /\ envConfigured \in BOOLEAN
  /\ runtimeConfig \in BOOLEAN
  /\ grokConfigured = (envConfigured \/ runtimeConfig)
  /\ ConfigOf(envConfigured, runtimeConfig)
  /\ explicitDemoOptIn \in BOOLEAN
  /\ storedProvider \in {NoStoredProvider, "grok", "demo"}
  /\ currentProvider \in {"grok", "demo"}
  /\ providerHook = HookState(FALSE, currentProvider, grokConfigured, explicitDemoOptIn)

NextSelection ==
  \/ Reload
  \/ Mount
  \/ \E endpoint \in {<<>>, SavedEndpoint} : SaveRuntimeConfig(endpoint, SavedApiKey, 2)
  \/ ClearRuntimeConfig
  \/ \E newProvider \in {"grok", "demo"} : HandleProviderChange(newProvider)

SpecSelection == InitAnySelection /\ [][NextSelection]_vars

\* ------------------------------------------------ configuration in detail
\* The values the build may give the two environment variables ('' when a
\* variable is not set): nothing checks them when the application is built.
EnvEndpoints ==
  {<<>>, <<"https://", "api.x.ai", "/v1", "/">>, <<"ftp://", "api.x.ai", "/v1">>}

EnvApiKeys == {<<>>, SavedApiKey}

\* The first load of the page under any build: localStorage is empty.
InitConfig ==
  /\ InitSession
  /\ ENV_GROK_API_ENDPOINT \in EnvEndpoints
  /\ ENV_GROK_API_KEY \in EnvApiKeys
  /\ grokApiEndpoint = <<>>
  /\ grokApiKey = <<>>
  /\ listeners = {}
  /\ nextHandler = 1
  /\ delivered = NoneDelivered
  /\ saveArgs = NoSaveArgs
  /\ envConfigured = (ENV_GROK_API_ENDPOINT # <<>> /\ ENV_GROK_API_KEY # <<>>)
  /\ runtimeConfig = FALSE
  /\ grokConfigured = isGrokConfigured(ENV_GROK_API_ENDPOINT, ENV_GROK_API_KEY, <<>>, <<>>)
  /\ explicitDemoOptIn = FALSE
  /\ storedProvider = NoStoredProvider
  /\ currentProvider =
       initializeProvider(Selection("demo", FALSE, NoStoredProvider), grokConfigured).current
  /\ providerHook = HookState(FALSE, currentProvider, grokConfigured, FALSE)

\* The settings form with any input, the provider selection, and other
\* subscribers of the configuration-change event.
NextConfig ==
  \/ Reload
  \/ Mount
  \/ \E endpoint \in EndpointInputs, apiKey \in ApiKeyInputs, written \in 1..2 :
        SaveRuntimeConfig(endpoint, apiKey, written)
  \/ ClearRuntimeConfig
  \/ \E newProvider \in {"grok", "demo"} : HandleProviderChange(newProvider)
  \/ OnConfigChange
  \/ \E h \in 1..MaxHandlers : Unsubscribe(h)

SpecConfig == InitConfig /\ [][NextConfig]_vars

\* ------------------------------------------- the endpoint validator alone
\* Every endpoint of a scheme, the host and up to MaxPathParts path parts,
\* slashes and queries, in any order.
EndpointStrings ==
  {<<scheme, host>> \o rest :
     scheme \in {"http://", "https://"}, host \in Hosts,
     rest \in UNION {[1..n -> PathParts \cup Queries] : n \in 0..MaxPathParts}}

\* The page of a build without environment configuration.
InitEndpoint ==
  /\ InitConfig
  /\ ENV_GROK_API_ENDPOINT = <<>>
  /\ ENV_GROK_API_KEY = <<>>

\* The settings form saves any of the endpoints, or clears the configuration.
NextEndpoint ==
  \/ Mount
  \/ \E endpoint \in EndpointStrings : SaveRuntimeConfig(endpoint, SavedApiKey, 2)
  \/ ClearRuntimeConfig

SpecEndpoint == InitEndpoint /\ [][NextEndpoint]_vars

\* ------------------------------------- reset() beside the provider selection
\* The session hook with reset(), in an app started with any provider
\* selection and any stored configuration.
NextSessionReset == Calls(MaxClipsSelecting) \/ Reset

SpecSessionReset == InitAnySelection /\ [][NextSessionReset]_vars

\* ------------------------------------------------------ the progress hook
\* The segment lists the Clips step may give the hook, and the events of a
\* run as the hook sees them: a second passes, a segment's status changes.
ShownSegmentLists ==
  UNION {[1..n -> {[prompt |-> "sunset", status |-> st] : st \in Statuses}] :
           n \in 0..MaxShown}

InitProgress ==
  /\ sessions = <<>>
  /\ nextSessionId = 1
  /\ nextSegmentId = 1
  /\ currentProvider = "demo"
  /\ grokConfigured = FALSE
  /\ envConfigured = FALSE
  /\ runtimeConfig = FALSE
  /\ ConfigOf(FALSE, FALSE)
  /\ explicitDemoOptIn = FALSE
  /\ storedProvider = NoStoredProvider
  /\ providerHook = HookState(FALSE, "demo", FALSE, FALSE)
  /\ sessionId = NoSession
  /\ segments \in ShownSegmentLists
  /\ clips = <<>>
  /\ isGenerating = FALSE
  /\ generationError = NoError
  /\ generatingSegments = {}
  /\ tasks = <<>>
  /\ resets = 0
  /\ rejections = 0
  /\ starts = 0
  /\ retryCalls = 0
  /\ lastCall = NoCall
  /\ tick = 0

\* The interval of the hook fires: it runs while some segment is generating.
Tick ==
  /\ GeneratingIndex(segments) # -1
  /\ tick < MaxTick
  /\ tick' = tick + 1
  /\ UNCHANGED <<storeVars, providerVars, hookVars, lastCall>>

\* The hook renders with a new segment list; its effect sets tick to 0 when
\* no segment of the list is generating.
Rendered(segs) ==
  /\ segments' = segs
  /\ tick' = IF GeneratingIndex(segs) = -1 THEN 0 ELSE tick
  /\ UNCHANGED <<storeVars, providerVars, sessionId, clips, isGenerating,
                 generationError, generatingSegments, tasks, resets, rejections,
                 starts, retryCalls, lastCall>>

\* A Queued segment, or a Failed one that is retried, becomes Generating.
SegmentStarts(k) ==
  /\ segments[k].status.kind \in {"queued", "failed"}
  /\ Rendered([segments EXCEPT ![k].status = Generating])

SegmentCompletes(k) ==
  /\ segments[k].status = Generating
  /\ Rendered([segments EXCEPT ![k].status = Completed])

SegmentFails(k) ==
  /\ segments[k].status = Generating
  /\ Rendered([segments EXCEPT ![k].status = Failed("Generation failed")])

NextProgress ==
  \/ Tick
  \/ \E k \in DOMAIN segments : SegmentStarts(k)
  \/ \E k \in DOMAIN segments : SegmentCompletes(k)
  \/ \E k \in DOMAIN segments : SegmentFails(k)

SpecProgress == InitProgress /\ [][NextProgress]_vars

\* What the hook returns for the list and tick it holds.
progress == ScaledProgress(segments, tick)
label == ProgressLabel(segments)
ProgressIs(percent) == progress = percent * Scale(segments)

\* ------------------------------------------------------------- properties
\* A run's step that begins the attempt on an index: the loop of task id
\* leaves its head for the first await of a unit of work.
LoopBegins(id) ==
  /\ id \in TaskIds
  /\ id \in DOMAIN tasks'
  /\ tasks[id].kind = "run"
  /\ tasks[id].pc # "pushGen"
  /\ tasks'[id].pc = "pushGen"

\* C1: while reset() is not called, at most one attempt is in flight for an
\* index at any time, and an attempt suspended at any of its awaits has its
\* index in the guard set (the index is added before the first await, and no
\* second attempt on it begins while it is there).
C1_OneAttemptPerIndex ==
  /\ \A a \in TaskIds : tasks[a].pc \in AttemptPcs => tasks[a].i \in generatingSegments
  /\ \A a, b \in TaskIds :
       (/\ tasks[a].pc \in AttemptPcs
        /\ tasks[b].pc \in AttemptPcs
        /\ tasks[a].i = tasks[b].i) => a = b

\* C1's case: the run's loop and a retrySegment are both in flight, on
\* different indices, and the loop has already moved past its first index.
C1_Witness ==
  \E a \in Runs, b \in Retries :
    /\ tasks[a].pc \in AttemptPcs
    /\ tasks[b].pc \in AttemptPcs
    /\ tasks[a].i > 0
    /\ tasks[a].i # tasks[b].i

\* C2: when the loop begins the attempt on index j, j is not in the guard set
\* and the status of segment j at that moment is neither Generating nor
\* Completed (the loop skips such an index).
C2_LoopSkipsOnLiveStatus ==
  [][\A id \in TaskIds :
       LoopBegins(id) =>
         LET j == tasks'[id].i IN
         /\ j \notin generatingSegments
         /\ segments'[j + 1].status.kind \notin {"generating", "completed"}]_vars

\* C3: a step of a segment's attempt that was started before the last reset()
\* (a store or provider call of it resolves or fails after the reset) leaves the session id, the segments, the clips,
\* isGenerating and the guard set as they are.
C3_StaleResultDiscarded ==
  [][\A id \in TaskIds :
       (/\ tasks[id].epoch < resets
        /\ tasks[id].pc \in AttemptPcs
        /\ resets' = resets
        /\ (id \notin DOMAIN tasks' \/ tasks'[id] # tasks[id]))
       => UNCHANGED <<sessionId, segments, clips, isGenerating, generatingSegments>>]_vars

\* C4: a successful updateSegmentStatus(sessionId, i, s) sets the status of
\* the segment at zero-based position i of that session to s, and changes no
\* other segment of that session and no other session.
C4_UpdateSetsPosition ==
  [][\A id \in TaskIds :
       (/\ id \in DOMAIN tasks'
        /\ tasks[id].pc \in {"pushGen", "pushDone", "pushFail"}
        /\ tasks'[id].pc \in {"getGen", "getDone", "getFail"})
       => LET t == tasks[id]
              s == IF t.pc = "pushGen" THEN Generating
                   ELSE IF t.pc = "pushDone" THEN Completed
                   ELSE Failed(t.err)
          IN
          /\ toPublic(sessions'[t.sid]).segments[t.i + 1].status = s
          /\ \A k \in 1..Len(sessions[t.sid].segments) :
               k # t.i + 1 => sessions'[t.sid].segments[k] = sessions[t.sid].segments[k]
          /\ \A other \in DOMAIN sessions :
               other # t.sid => sessions'[other] = sessions[other]]_vars

\* C5: a rejected session-store call never aborts the run and never turns an
\* attempt into a failure: no run is left by an exception, and no attempt is
\* in its catch block with the store's rejection as its error.
C5_StoreFailuresSwallowed ==
  \A id \in TaskIds :
    /\ tasks[id].pc # "aborted"
    /\ tasks[id].pc \in {"pushFail", "getFail"} => tasks[id].err # StoreUnavailable

\* C6: a segment whose status is Failed has no clip at its index, and no clip
\* that is recorded has an empty URL.
C6_FailedHasNoClip ==
  /\ \A k \in 1..Len(segments) :
       segments[k].status.kind = "failed" => (k > Len(clips) \/ clips[k].null)
  /\ \A k \in 1..Len(clips) : ~clips[k].null => clips[k].url # ""

\* C7: in every state, a segment whose status is Completed has a clip at the
\* same index, and that clip's URL is not empty.
C7_CompletedHasClip ==
  \A k \in 1..Len(segments) :
    segments[k].status.kind = "completed" =>
      /\ k <= Len(clips)
      /\ ~clips[k].null
      /\ clips[k].url # ""

\* C8: when a run of n segments has finished with no store rejection and no
\* retry, and the provider failed for exactly one index k and succeeded for
\* the others, then every other segment is Completed, segment k is Failed with
\* a reason of the provider, clips[k] is null and the label reads
\* "n-1 of n clips completed".
C8_FailureIsLocal ==
  \A id \in Runs :
    LET t == tasks[id]
        n == Len(segments)
        failedAt == {a \in 1..Len(t.log) : ~t.log[a].ok}
    IN
    (/\ t.pc = "done"
     /\ retryCalls = 0
     /\ rejections = 0
     /\ Len(t.log) = n
     /\ Cardinality(failedAt) = 1)
    => \A a \in failedAt :
         LET k == t.log[a].i + 1 IN
         /\ \A j \in 1..n : j # k => segments[j].status = Completed
         /\ segments[k].status.kind = "failed"
         /\ segments[k].status.failed \in
              {HttpFailure, MissingUrl, InvalidUrlFormat, NotConfigured, NoCanvas}
         /\ clips[k].null
         /\ ProgressLabel(segments) = CountLabel(n - 1, n)

C10_RetryOnGuardedIndexIsNoOp ==
  [][(retryCalls' # retryCalls /\ lastCall'.index \in generatingSegments)
       => UNCHANGED <<sessionVars, generatingSegments, storeVars, tasks>>]_vars

\* C10's case: retrySegment(i) has just returned early in a session that has a
\* segment i, because an attempt on i holds the guard.
C10_Witness ==
  /\ lastCall = Call("retrySegment", lastCall.index, "returned")
  /\ sessionId # NoSession
  /\ lastCall.index < Len(segments)
  /\ lastCall.index \in generatingSegments
  /\ \E id \in TaskIds : tasks[id].pc \in AttemptPcs /\ tasks[id].i = lastCall.index

\* C11: a retrySegment(i) taken on a segment whose status is Failed makes
\* segment i Generating: from the refresh that follows its Generating push
\* until its own next refresh, the in-memory status of segment i is
\* Generating.
C11_RetryMakesSegmentGenerating ==
  \A id \in Retries :
    LET t == tasks[id] IN
    (/\ t.snap[t.i + 1].status.kind = "failed"
     /\ t.sid = sessionId
     /\ t.pc \in {"provider", "pushDone", "getDone"})
    => segments[t.i + 1].status = Generating

\* C12: once the segments of a session are initialised, isGenerating is false
\* only when every segment is Completed or Failed.
C12_IdleOnlyWhenAllDone ==
  (sessionId # NoSession /\ ~isGenerating) => AllDone(segments)

C14_StartFailureAbortsRun ==
  [][\A id \in TaskIds :
       (tasks[id].pc \in {"create", "fetch"} /\ id \notin DOMAIN tasks')
       => /\ ~isGenerating'
          /\ generationError' # NoError
          /\ tasks[id].log = <<>>
          /\ DOMAIN tasks' = DOMAIN tasks \ {id}
          /\ UNCHANGED <<sessionId, segments, clips, generatingSegments>>]_vars

\* C14's case: a startGeneration has failed at its getSession, after its
\* createSession had stored a session: the error is reported and no session
\* is live.
C14_Witness ==
  /\ generationError = StoreUnavailable
  /\ ~isGenerating
  /\ sessionId = NoSession
  /\ segments = <<>>
  /\ sessions # <<>>
  /\ tasks = <<>>

\* C15: every change of a stored segment status is one of Queued to
\* Generating, Generating to Completed, Generating to Failed, Failed to
\* Generating.
C15_OnlyFourTransitions ==
  [][\A sid \in DOMAIN sessions :
       \A k \in 1..Len(sessions[sid].segments) :
         LET before == sessions[sid].segments[k].status
             after == sessions'[sid].segments[k].status
         IN
         \/ after = before
         \/ <<before.kind, after.kind>> \in
              {<<"queued", "generating">>, <<"generating", "completed">>,
               <<"generating", "failed">>, <<"failed", "generating">>}]_vars

\* C16: every stored session has one segment per segment prompt given to
\* createSession, in the prompts' order and with the prompt's text; and no call
\* of createSession or updateSegmentStatus, with any segment identifier and any
\* status, changes the segment count, the segment order or a segment's prompt
\* of a session already stored.
C16_SegmentsMirrorPrompts ==
  /\ [](\A sid \in DOMAIN sessions :
          /\ Len(sessions[sid].segments) = Len(sessions[sid].segmentPrompts)
          /\ \A k \in 1..Len(sessions[sid].segments) :
               sessions[sid].segments[k].prompt = sessions[sid].segmentPrompts[k])
  /\ [][\A sid \in DOMAIN sessions :
          /\ sid \in DOMAIN sessions'
          /\ sessions'[sid].segmentPrompts = sessions[sid].segmentPrompts
          /\ Len(sessions'[sid].segments) = Len(sessions[sid].segments)
          /\ \A k \in 1..Len(sessions[sid].segments) :
               /\ sessions'[sid].segments[k].prompt = sessions[sid].segments[k].prompt
               /\ sessions'[sid].segments[k].id = sessions[sid].segments[k].id]_vars

\* Two sessions are stored, the second with two different prompts, and an
\* update has changed the status of its second segment only.
C16_Witness ==
  /\ DOMAIN sessions = {1, 2}
  /\ sessions[2].segmentPrompts = <<"sunset", "dawn">>
  /\ sessions[2].segments[1].status = Queued
  /\ sessions[2].segments[2].status = Completed
  /\ lastCall.op = "updateSegmentStatus"

\* A step in which reconcileProviderOnConfigChange runs: the hook's effect on
\* mount, or the subscriber of a configuration change.
ReconcilerRuns ==
  \/ Mount
  \/ /\ lastCall'.op = "saveRuntimeConfig"
     /\ SaveAccepted(saveArgs'.endpoint, saveArgs'.apiKey)
     /\ SaveRuntimeConfig(saveArgs'.endpoint, saveArgs'.apiKey, 2)
  \/ ClearRuntimeConfig

\* C17: after the reconciler has run (or initializeProvider, when the page
\* loads), Grok is the active provider whenever
\* Grok is configured and the explicit opt-in is off; when Grok is configured
\* and the opt-in is on, the demo provider stays active; and a manual
\* selection of Grok in that state clears the opt-in and makes Grok active,
\* which a following reconciliation keeps.
C17_ReconcilerPrefersGrok ==
  /\ [][(ReconcilerRuns \/ Reload) =>
          /\ (grokConfigured' /\ ~explicitDemoOptIn') => currentProvider' = "grok"
          /\ (grokConfigured' /\ explicitDemoOptIn')
               => currentProvider' = "demo" /\ currentProvider = "demo"]_vars
  /\ [][(HandleProviderChange("grok") /\ grokConfigured /\ explicitDemoOptIn)
          => /\ ~explicitDemoOptIn' /\ currentProvider' = "grok"
             /\ reconcileProviderOnConfigChange(
                  Selection(currentProvider', explicitDemoOptIn', storedProvider'),
                  grokConfigured').current = "grok"]_vars

\* The demo provider was active when a valid runtime configuration was saved
\* with the opt-in off, and the reconciler has made Grok active.
C17_Witness ==
  /\ lastCall = Call("saveRuntimeConfig", 0, "grok")
  /\ ~envConfigured /\ grokConfigured /\ ~explicitDemoOptIn
  /\ currentProvider = "grok" /\ storedProvider = "grok"
  /\ providerHook = HookState(TRUE, "grok", TRUE, FALSE)

\* C18: whenever the reconciler has run while Grok is not configured, the demo
\* provider is active and the explicit opt-in is off, whatever they were
\* before.
C18_UnconfiguredClearsOptIn ==
  [][(ReconcilerRuns /\ ~grokConfigured')
       => currentProvider' = "demo" /\ ~explicitDemoOptIn']_vars

\* C19: a manual selection of the demo provider while Grok is configured
\* turns the explicit opt-in on and makes the demo provider active; a manual
\* selection of Grok while it is configured turns the opt-in off and makes
\* Grok active.
C19_ManualSelectionSetsOptIn ==
  /\ [][(HandleProviderChange("demo") /\ grokConfigured)
          => explicitDemoOptIn' /\ currentProvider' = "demo"]_vars
  /\ [][(HandleProviderChange("grok") /\ grokConfigured)
          => ~explicitDemoOptIn' /\ currentProvider' = "grok"]_vars

\* Grok was active and configured when the demo provider was selected by hand.
C19_Witness ==
  /\ lastCall = Call("handleProviderChange", 0, "demo")
  /\ grokConfigured /\ explicitDemoOptIn
  /\ currentProvider = "demo" /\ storedProvider = "demo"
  /\ providerHook = HookState(TRUE, "demo", TRUE, TRUE)

\* C20: a manual selection of Grok while it is not configured changes nothing:
\* the active provider, the explicit opt-in and the stored selection are as
\* before the call.
C20_UnconfiguredGrokRejected ==
  [][(HandleProviderChange("grok") /\ ~grokConfigured)
       => /\ UNCHANGED <<currentProvider, explicitDemoOptIn, storedProvider>>
          /\ lastCall'.result = "rejected"]_vars

\* Grok is not configured, the demo provider is active with a stale opt-in and
\* a stored selection, and a selection of Grok has just been rejected.
C20_Witness ==
  /\ lastCall = Call("handleProviderChange", 0, "rejected")
  /\ ~grokConfigured /\ currentProvider = "demo"
  /\ explicitDemoOptIn /\ storedProvider = "demo"

\* C21: the reconciler is idempotent: whatever the active provider, the
\* explicit opt-in, the stored selection and the configuration were, running
\* the reconciler again on the state it has just produced changes nothing.
C21_ReconcilerIdempotent ==
  [][ReconcilerRuns =>
       reconcileProviderOnConfigChange(
         Selection(currentProvider', explicitDemoOptIn', storedProvider'),
         grokConfigured')
       = Selection(currentProvider', explicitDemoOptIn', storedProvider')]_vars

\* The reconciler has run on mount from a stale stored 'demo' without opt-in
\* while Grok is configured: it removed the stale item, switched to Grok and
\* stored 'grok'.
C21_Witness ==
  /\ lastCall = Call("useVideoProvider", 0, "grok")
  /\ providerHook = HookState(TRUE, "grok", TRUE, FALSE)
  /\ runtimeConfig /\ ~envConfigured
  /\ currentProvider = "grok" /\ storedProvider = "grok" /\ ~explicitDemoOptIn

\* The messages of the validation errors of saveRuntimeConfig.
ValidationErrors ==
  {"API key is required", "Endpoint URL is required",
   "Endpoint must start with http:// or https://", "Invalid endpoint URL format"}

\* C22: a save whose endpoint is blank or does not start with http:// or
\* https://, or whose key is blank, returns a validation error, leaves both
\* stored items as they were, calls no subscriber (neither a handler nor the
\* provider hook's), and leaves isGrokConfigured() as it was.
C22_InvalidSaveChangesNothing ==
  [][(/\ lastCall'.op = "saveRuntimeConfig"
      /\ SaveRuntimeConfig(saveArgs'.endpoint, saveArgs'.apiKey, saveArgs'.written)
      /\ \/ Trim(saveArgs'.endpoint) = <<>>
         \/ ~StartsWithHttp(Trim(saveArgs'.endpoint))
         \/ Trim(saveArgs'.apiKey) = <<>>)
       => /\ lastCall'.result \in ValidationErrors
          /\ UNCHANGED <<grokApiEndpoint, grokApiKey, delivered, providerHook,
                         currentProvider, explicitDemoOptIn, storedProvider,
                         grokConfigured>>
          /\ isGrokConfigured(ENV_GROK_API_ENDPOINT, ENV_GROK_API_KEY,
                              grokApiEndpoint', grokApiKey') = grokConfigured]_vars

\* A runtime configuration is stored and a handler is subscribed when a save
\* with an ftp:// endpoint is rejected.
C22_Witness ==
  /\ lastCall = Call("saveRuntimeConfig", 0, "Endpoint must start with http:// or https://")
  /\ grokApiEndpoint = <<"https://", "api.x.ai", "/v1", "?model=video">>
  /\ grokApiKey = <<"xai-key">>
  /\ listeners = {1}
  /\ ENV_GROK_API_ENDPOINT = <<>>
  /\ grokConfigured

\* C23: a successful save stores the normalized endpoint and the trimmed key
\* and then calls every subscribed handler exactly once, the provider hook's
\* subscriber included; a clear removes both items and calls every subscribed
\* handler exactly once; a handler that has been unsubscribed is not called.
C23_ChangeNotifiesSubscribers ==
  /\ [][(/\ lastCall'.op = "saveRuntimeConfig"
         /\ SaveAccepted(saveArgs'.endpoint, saveArgs'.apiKey)
         /\ SaveRuntimeConfig(saveArgs'.endpoint, saveArgs'.apiKey, 2))
        => /\ grokApiEndpoint' = NormalizedUrl(Trim(saveArgs'.endpoint))
           /\ grokApiKey' = Trim(saveArgs'.apiKey)
           /\ \A h \in 1..MaxHandlers : delivered'[h] = IF h \in listeners THEN 1 ELSE 0
           /\ lastCall'.result = currentProvider'
           /\ providerHook'.grokConfigured]_vars
  /\ [][ClearRuntimeConfig
        => /\ grokApiEndpoint' = <<>> /\ grokApiKey' = <<>>
           /\ \A h \in 1..MaxHandlers : delivered'[h] = IF h \in listeners THEN 1 ELSE 0
           /\ lastCall' = Call("clearRuntimeConfig", 0, currentProvider')]_vars

\* Two handlers were added and the first removed; a save of a padded endpoint
\* and key has stored both normalized and called the second handler only.
C23_Witness ==
  /\ lastCall.op = "saveRuntimeConfig"
  /\ grokApiEndpoint = <<"https://", "api.x.ai", "/v1", "?model=video">>
  /\ grokApiKey = <<"xai-key">>
  /\ nextHandler = 3 /\ listeners = {2}
  /\ delivered[1] = 0 /\ delivered[2] = 1

\* C24: Grok is reported as configured exactly when a source holds a valid
\* configuration: both strings non-empty and the endpoint accepted by the
\* validation; a configuration whose endpoint fails the validation is never
\* reported as configured, whether it comes from the environment or from
\* localStorage.
C24_ConfiguredIffValid ==
  LET envValid ==
        /\ ENV_GROK_API_ENDPOINT # <<>> /\ ENV_GROK_API_KEY # <<>>
        /\ validateAndNormalizeEndpoint(ENV_GROK_API_ENDPOINT).valid
      runtimeValid ==
        /\ Trim(grokApiEndpoint) # <<>> /\ Trim(grokApiKey) # <<>>
        /\ validateAndNormalizeEndpoint(grokApiEndpoint).valid
      config == getGrokConfig(ENV_GROK_API_ENDPOINT, ENV_GROK_API_KEY,
                              grokApiEndpoint, grokApiKey)
  IN
  /\ isGrokConfigured(ENV_GROK_API_ENDPOINT, ENV_GROK_API_KEY,
                      grokApiEndpoint, grokApiKey) = (envValid \/ runtimeValid)
  /\ ~config.null => validateAndNormalizeEndpoint(config.endpoint).valid

\* C25: the configuration is resolved by precedence, the first valid source
\* winning: the environment's configuration when it is valid, otherwise the
\* runtime configuration of localStorage when that is valid, otherwise none.
C25_FirstValidSourceWins ==
  LET envValidation == validateAndNormalizeEndpoint(ENV_GROK_API_ENDPOINT)
      envValid ==
        /\ ENV_GROK_API_ENDPOINT # <<>> /\ ENV_GROK_API_KEY # <<>>
        /\ envValidation.valid
      runtimeValid ==
        /\ Trim(grokApiEndpoint) # <<>> /\ Trim(grokApiKey) # <<>>
        /\ validateAndNormalizeEndpoint(grokApiEndpoint).valid
  IN
  getGrokConfig(ENV_GROK_API_ENDPOINT, ENV_GROK_API_KEY, grokApiEndpoint, grokApiKey)
    = IF envValid THEN GrokConfig(envValidation.normalized, ENV_GROK_API_KEY)
      ELSE IF runtimeValid THEN GrokConfig(Trim(grokApiEndpoint), Trim(grokApiKey))
      ELSE NoConfig

C27_Below100WhileUnfinished ==
  (\E k \in DOMAIN segments : segments[k].status.kind \in {"queued", "generating"})
    => progress < 100 * Scale(segments)

C27_Witness ==
  /\ Len(segments) = MaxShown
  /\ CountOf(segments, "completed") = MaxShown - 1
  /\ CountOf(segments, "generating") = 1
  /\ tick = 44
  /\ progress = 100 * (MaxShown - 1) + 88

\* C28: the progress is 0 when no segment has started, is 100 only when every
\* segment is Completed, and is not 100 when no clip has completed.
C28_HundredOnlyWhenAllCompleted ==
  LET total == Len(segments)
      completedCount == CountOf(segments, "completed")
  IN
  /\ (\A k \in DOMAIN segments : segments[k].status = Queued) => ProgressIs(0)
  /\ ProgressIs(100) => (total > 0 /\ completedCount = total)
  /\ completedCount = 0 => ~ProgressIs(100)

\* C29: across every step of a run (a tick, a segment entering Generating,
\* completing or failing) the progress does not decrease. The retry of a
\* Failed segment starts another run and is not such a step. The list keeps
\* its length, so the scaled values compare as the progress values do.
C29_ProgressMonotonic ==
  [][(\A k \in DOMAIN segments :
        ~(segments[k].status.kind = "failed" /\ segments'[k].status = Generating))
     => ScaledProgress(segments', tick') >= ScaledProgress(segments, tick)]_vars

\* C30: reset() empties the guard set, sets the session id to null, segments
\* and clips to [], isGenerating to false and the error text to null, and
\* leaves the stored Grok configuration, the explicit-demo opt-in and the
\* active provider as they were.
C30_ResetClearsSessionOnly ==
  [][resets' = resets + 1 =>
       /\ generatingSegments' = {}
       /\ sessionId' = NoSession
       /\ segments' = <<>>
       /\ clips' = <<>>
       /\ isGenerating' = FALSE
       /\ generationError' = NoError
       /\ UNCHANGED <<grokApiEndpoint, grokApiKey, explicitDemoOptIn,
                      currentProvider, storedProvider>>]_vars

C30_Witness ==
  /\ lastCall.op = "reset"
  /\ tasks # <<>>
  /\ generatingSegments = {}
  /\ sessionId = NoSession
  /\ explicitDemoOptIn
  /\ grokApiEndpoint = SavedEndpoint
  /\ currentProvider = "demo"

\* The calls that are inside a per-segment unit of work (a pass of the loop
\* or a retrySegment between its guard-set add and its `finally`).
InFlight == {id \in TaskIds : tasks[id].pc \in AttemptPcs}

\* The unit of work of call id ends in this step.
AttemptEnds(id) ==
  \/ id \notin DOMAIN tasks'
  \/ tasks'[id].pc \notin AttemptPcs
  \/ tasks'[id].i # tasks[id].i

\* C31: when a per-segment unit of work ends, whatever its outcome, its index
\* is not in the guard set; and whenever no unit of work is in flight the
\* guard set is empty.
C31_GuardReleasedOnEveryExit ==
  /\ [](InFlight = {} => generatingSegments = {})
  /\ [][\A id \in InFlight :
          AttemptEnds(id) => tasks[id].i \notin generatingSegments']_vars

\* A run has been left by an exception thrown inside its catch block, and
\* nothing is in flight.
C31_Witness ==
  /\ \E id \in TaskIds : tasks[id].pc = "aborted"
  /\ InFlight = {}
  /\ generatingSegments = {}
  /\ rejections = 1

\* C32: clips is index-aligned with segments: the two arrays have the same
\* length, and clips[i] is null or a clip made from the prompt of segment i
\* with the duration of the live session.
C32_ClipsAlignedWithSegments ==
  /\ Len(clips) = Len(segments)
  /\ \A k \in DOMAIN clips :
       \/ clips[k] = NoClip
       \/ /\ sessionId # NoSession
          /\ clips[k].prompt = segments[k].prompt
          /\ clips[k].duration = sessions[sessionId].perClipDuration

\* C33: a retrySegment call gives the provider the perClipDuration recorded on
\* its session in the session store, whatever the index and whether or not a
\* clip has completed; the clip the provider returns carries that duration.
C33_RetryUsesSessionDuration ==
  \A id \in Retries :
    /\ tasks[id].pc = "provider" =>
         tasks[id].duration = sessions[tasks[id].sid].perClipDuration
    /\ tasks[id].pc \in {"pushDone", "getDone"} =>
         tasks[id].clip.duration = sessions[tasks[id].sid].perClipDuration

\* A retry of index 1 has its clip from the provider while no clip of the
\* session has completed.
C33_Witness ==
  \E id \in Retries :
    /\ tasks[id].pc = "pushDone"
    /\ tasks[id].i = 1
    /\ tasks[id].clip.duration = 20
    /\ \A k \in DOMAIN clips : clips[k] = NoClip

\* The string without its query.
BeforeQuery(str) ==
  IF str # <<>> /\ str[Len(str)] \in Queries THEN SubSeq(str, 1, Len(str) - 1) ELSE str

EndsWithSlash(str) == str # <<>> /\ str[Len(str)] = "/"

\* C34: for every endpoint validateAndNormalizeEndpoint accepts, the
\* normalized endpoint has no slash at the end of its part before the query,
\* and normalizing it again returns it unchanged.
C34_NormalizationIdempotent ==
  LET first == validateAndNormalizeEndpoint(saveArgs.endpoint)
      second == validateAndNormalizeEndpoint(first.normalized)
  IN
  (lastCall.op = "saveRuntimeConfig" /\ first.valid) =>
    /\ ~EndsWithSlash(BeforeQuery(first.normalized))
    /\ second.valid
    /\ second.normalized = first.normalized

\* C35: createSession fails when originalPrompt is empty, when segmentPrompts
\* is empty, or when perClipDuration is outside 1..120, and then the session
\* map and the two id counters are unchanged; otherwise it stores, under a
\* new id, a session with one Queued segment per prompt, in the prompts'
\* order, and leaves the sessions stored before as they were.
C35_CreateSessionValidates ==
  [][\A originalPrompt \in Prompts, segmentPrompts \in SegmentPromptLists,
        perClipDuration \in BoundaryDurations :
        CreateSession(originalPrompt, segmentPrompts, perClipDuration) =>
          IF \/ originalPrompt = ""
             \/ Len(segmentPrompts) = 0
             \/ perClipDuration < 1
             \/ perClipDuration > 120
          THEN /\ lastCall'.result # ""
               /\ UNCHANGED <<sessions, nextSessionId, nextSegmentId>>
          ELSE /\ lastCall'.result = ""
               /\ DOMAIN sessions' = DOMAIN sessions \cup {nextSessionId}
               /\ nextSessionId \notin DOMAIN sessions
               /\ \A sid \in DOMAIN sessions : sessions'[sid] = sessions[sid]
               /\ sessions'[nextSessionId].perClipDuration = perClipDuration
               /\ Len(sessions'[nextSessionId].segments) = Len(segmentPrompts)
               /\ \A k \in 1..Len(segmentPrompts) :
                    /\ sessions'[nextSessionId].segments[k].status = Queued
                    /\ sessions'[nextSessionId].segments[k].prompt = segmentPrompts[k]]_vars

\* A session of two prompts and the longest duration is stored, and a later
\* call with a duration of 0 has failed.
C35_Witness ==
  /\ DOMAIN sessions = {1}
  /\ sessions[1].perClipDuration = 120
  /\ sessions[1].segmentPrompts = <<"sunset", "dawn">>
  /\ sessions[1].segments[2].status = Queued
  /\ nextSegmentId = 3
  /\ lastCall = Call("createSession", 0, "Clip duration must be between 1 and 120 seconds")

\* A step of the session hook: a call of startGeneration or retrySegment, or
\* the resolution of one of their awaits.
OrchestratorStep ==
  \/ tasks' # tasks
  \/ starts' # starts
  \/ retryCalls' # retryCalls
  \/ lastCall' # lastCall /\ lastCall'.op \in {"startGeneration", "retrySegment"}

\* C36: no step of startGeneration, of the segment loop or of retrySegment,
\* failure paths included, changes the active provider, the explicit-demo
\* opt-in, the stored provider selection or the stored Grok configuration.
C36_OrchestratorKeepsProvider ==
  [][OrchestratorStep =>
       UNCHANGED <<currentProvider, explicitDemoOptIn, storedProvider,
                   grokApiEndpoint, grokApiKey>>]_vars

\* Grok is the active provider after its call for a segment has failed and
\* the Failed status has been pushed.
C36_Witness ==
  /\ currentProvider = "grok"
  /\ ~explicitDemoOptIn
  /\ grokApiEndpoint = SavedEndpoint
  /\ \E id \in TaskIds :
       /\ tasks[id].pc = "getFail"
       /\ tasks[id].log # <<>>
       /\ ~tasks[id].log[Len(tasks[id].log)].ok

\* C37: from the load of the page on, through manual selections and
\* reconciliations, the demo provider is the active one whenever the
\* explicit-demo opt-in is set: Grok is never active with the opt-in set.
C37_OptInImpliesDemo ==
  explicitDemoOptIn => currentProvider = "demo"

\* The opt-in is set, Grok is configured, and a configuration change has just
\* been reconciled: the demo provider is still the active one.
C37_Witness ==
  /\ explicitDemoOptIn
  /\ grokConfigured
  /\ currentProvider = "demo"
  /\ lastCall = Call("saveRuntimeConfig", 0, "demo")

\* C38: when every call of the store and of the provider returns and reset()
\* is not called, a run that has started (isGenerating is true) reaches a
\* state in which every segment is Completed or Failed and isGenerating is
\* false.
C38_RunsFinish ==
  isGenerating ~> (AllDone(segments) /\ ~isGenerating)

\* The calls started before the last reset(), and the indices whose attempt
\* by a call started after it is in flight.
Abandoned == {id \in TaskIds : tasks[id].epoch < resets}
HeldByLiveRun == {tasks[id].i : id \in InFlight \ Abandoned}

\* The awaits that are a status push or a provider call.
IssuesUpdateOrInvocation(pc) == pc \in {"pushGen", "pushDone", "pushFail", "provider"}

\* C39: after reset() a call of the abandoned run issues nothing more: a step
\* of it sends no status push, invokes the provider for no segment, begins
\* the attempt on no further index, adds no index to the guard set (which
\* would make the new run skip it) and removes no index an attempt of the new
\* run holds.
C39_AbandonedRunStops ==
  [][\A id \in Abandoned :
        (id \in DOMAIN tasks' /\ tasks'[id] # tasks[id]) =>
          /\ ~IssuesUpdateOrInvocation(tasks'[id].pc)
          /\ generatingSegments' \subseteq generatingSegments
          /\ HeldByLiveRun \cap generatingSegments \subseteq generatingSegments']_vars

\* C40: a request that passes the App's gate (isWithinTolerance of clipCount *
\* perClipDuration, for a clipCount of 1 or more) has a perClipDuration in
\* 1..120, so createSession does not reject it on its duration check.
C40_GatedDurationAccepted ==
  /\ \A id \in Runs :
       tasks[id].pc = "create" =>
         /\ tasks[id].perClipDuration >= 1
         /\ tasks[id].perClipDuration <= 120
         /\ CreateSessionTrap(tasks[id].prompt,
                              FillPrompts(tasks[id].prompt, tasks[id].clipCount),
                              tasks[id].perClipDuration) = ""
  /\ generationError # "Clip duration must be between 1 and 120 seconds"

\* A single clip of 120 seconds has passed the gate and its session is stored.
C40_Witness ==
  /\ DOMAIN sessions = {1}
  /\ sessions[1].perClipDuration = 120
  /\ Len(sessions[1].segments) = 1
  /\ \E id \in Runs : tasks[id].pc = "fetch"
====
